---- MODULE Spec2Model ----
(***************************************************************************)
(* The brush-to-BSP pipeline of qbsp (ericw-tools): the Face Validator     *)
(* (CheckFace), the Contents Classifier (Brush_GetContents), the Brush     *)
(* Loader (LoadBrush), the Entity Brush Aggregator (Brush_LoadEntity),     *)
(* the hull driver (CreateHulls / ProcessEntity / BSPX_CreateBrushList)    *)
(* and the bevel computation of Brush Bevel/Export (AddBrushBevels).       *)
(*                                                                         *)
(* Geometry is exact integer arithmetic on a small grid.  The code         *)
(* compares lengths and normalised dot products with epsilon; the model    *)
(* compares the squares, which decides the same comparisons without a      *)
(* square root (see LengthBelowEpsilon, InFrontOfEdge, OffPlane).          *)
(***************************************************************************)
EXTENDS Integers, Sequences, FiniteSets, TLC

VARIABLES
    qbsp_options,   \* the settings read by the pipeline
    log,            \* logging::print output, one tag per message
    fatal,          \* "none", or the reason of the FError / Q_assert abort
    cf_side,        \* Face Validator: the side_t under validation
    cf_source,      \* Face Validator: the winding the side was given
    cf_checked,     \* Face Validator: CheckFace has run on the side
    cf_rerun,       \* Face Validator: CheckFace has run again on its own result
    mapbrush,       \* Brush Loader: the source brush (mapbrush_t)
    lb_contents,    \* Brush Loader: <<contents>> once Brush_GetContents returned
    lb_hullnum,     \* Brush Loader: the hull number LoadBrush was called with
    lb_brush,       \* Brush Loader: <<brush>> once LoadBrush returned one
    lb_stage,       \* Brush Loader: "source", "loaded" or "updated"
    game,           \* the game policy: number of hulls, allow_contented_bmodels
    entities,       \* map.entities: keys, mapbrushes, brushes, bounds, model
    pc,             \* driver position: "hulls", "loaded", "bspx", "bspx_loaded", "done"
    hullnum,        \* driver: the hull number of the current pass
    entnum,         \* driver: index of the entity being processed (the world is 1)
    stats,          \* the content statistics of the last Brush_LoadEntity call
    all_detail,     \* per source entity, the detail flags the last call read
    bb_brush,       \* Brush Bevel/Export: the brush_t given to AddBrushBevels
    bb_planes,      \* Brush Bevel/Export: the list AddBrushBevels returned
    dbrushes,       \* Brush Bevel/Export: map.bsp.dbrushes
    dbrushsides,    \* Brush Bevel/Export: map.bsp.dbrushsides
    brush_offset,   \* Brush Bevel/Export: the brushes exported by earlier calls
    exported,       \* Brush Bevel/Export: the brushes given to ExportBrushList so far
    settings,       \* settings::dict: per setting, its value and its source
    parser,         \* settings: the tokens the parser has not consumed yet
    parse_status,   \* dict::parse: "options", "returned", "parse_exception", "help" or "undefined"
    remainder,      \* dict::parse: the remainder it returned
    last_set,       \* settings: the last setValue / setValueLocked call
    flag_locked,    \* logging: the atomic flag `locked` of percent
    percent_pc,     \* logging::percent: per thread "idle", "acquire", "inside" or "unlock"
    percent_call,   \* logging::percent: per thread the arguments and the local `expected`
    is_timing,      \* logging: is_timing
    last_count,     \* logging: last_count (-1 for the value uint64_t(-1))
    c_areas,        \* qbsp: c_areas, the number of areas FloodAreas found
    map_entities,   \* map.entities: per entity areaportalnum and portalareas
    dareas,         \* map.bsp.dareas
    dareaportals,   \* map.bsp.dareaportals
    rotate_ents,    \* map.entities for UpdateEntLump: per entity classname, target, targetname and origin
    rotate_next,    \* UpdateEntLump: the entity its loop handles next
    rotate_found    \* FixRotateOrigin: the entity FindTargetEntity returned to the last call, 0 for nullptr

face_vars == <<cf_side, cf_source, cf_checked, cf_rerun>>
common_vars == <<qbsp_options, log, fatal>>
brush_vars == <<mapbrush, lb_contents, lb_hullnum, lb_brush, lb_stage>>
pipe_vars == <<game, entities, pc, hullnum, entnum, stats, all_detail>>
bevel_vars == <<bb_brush, bb_planes>>
export_vars == <<dbrushes, dbrushsides, brush_offset, exported>>
settings_vars == <<settings, parser, parse_status, remainder, last_set>>
percent_vars == <<flag_locked, percent_pc, percent_call, is_timing, last_count>>
area_vars == <<c_areas, map_entities, dareas, dareaportals>>
rotate_vars == <<rotate_ents, rotate_next, rotate_found>>
vars == <<common_vars, face_vars, brush_vars, pipe_vars, bevel_vars, export_vars, settings_vars, percent_vars, area_vars, rotate_vars>>

(***************************************************************************)
(* Bounds                                                                  *)
(***************************************************************************)
GridMax == 1        \* winding points have x, y in 0..GridMax
MaxPoints == 4      \* longest winding given to the Face Validator
MaxFaces == 3       \* most faces of a source brush
NumHulls == 2       \* hulls of a game that has hulls: 0 .. NumHulls - 1
MaxBrushes == 1     \* most source brushes of an entity
BevelMax == 2       \* longest side of a box, longest leg of a tetrahedron
MaxExported == 3    \* most brushes given to ExportBrushList over all calls
MaxTokens == 4      \* longest command line given to dict::parse
NumThreads == 2     \* threads calling logging::percent
MaxCount == 2       \* the max argument of logging::percent; count is in 0..MaxCount
MaxAreas == 3       \* most areas of the map
MaxPortalEnts == 2  \* most entities of the map given to EmitAreaPortals
MaxRotateEnts == 2  \* most entities of the map given to UpdateEntLump

(***************************************************************************)
(* Vectors (qvec3d) and planes                                             *)
(***************************************************************************)
Dot(a, b) == a[1] * b[1] + a[2] * b[2] + a[3] * b[3]

Sub(a, b) == <<a[1] - b[1], a[2] - b[2], a[3] - b[3]>>

Cross(a, b) ==
    <<a[2] * b[3] - a[3] * b[2], a[3] * b[1] - a[1] * b[3], a[1] * b[2] - a[2] * b[1]>>

Abs(x) == IF x < 0 THEN -x ELSE x

\* map.planes: a sign-paired table, plane 2k+1 is the negation of plane 2k
MapPlanes ==
    << [normal |-> <<0, 0, 1>>, dist |-> 0], [normal |-> <<0, 0, -1>>, dist |-> 0] >>

get_plane(planenum) == MapPlanes[planenum + 1]

distance_to(plane, p) == Dot(plane.normal, p) - plane.dist

(***************************************************************************)
(* CheckFace (brush.cc)                                                    *)
(***************************************************************************)
\* fabs(v) > worldextent for some coordinate v of p
OutOfRange(p, opts) == \E k \in 1..3 : Abs(p[k]) > opts.worldextent

\* no point is ever found off the plane
OffPlane_Never(plane, p, opts) == FALSE

\* dist < -epsilon || dist > epsilon, the plane normal being of unit length
OffPlane(plane, p, opts) ==
    distance_to(plane, p) * distance_to(plane, p) > opts.epsilonSq

\* qv::length(p2 - p1) < epsilon
LengthBelowEpsilon(p1, p2, opts) == Dot(Sub(p2, p1), Sub(p2, p1)) < opts.epsilonSq

\* dot(v, edgenormal) > dot(p1, edgenormal) + epsilon, where edgenormal is
\* cross(facenormal, p2 - p1) normalised: with c the cross product this is
\* dot(v - p1, c) > epsilon * |c|
InFrontOfEdge(v, p1, p2, facenormal, opts) ==
    LET c == Cross(facenormal, Sub(p2, p1))
        d == Dot(Sub(v, p1), c)
    IN  d > 0 /\ d * d > opts.epsilonSq * Dot(c, c)

NextIndex(w, i) == (i % Len(w)) + 1

\* a healing step that takes out the second endpoint of the edge, point[i+1]
HealShift_Second(w, i) ==
    [j \in 1..(Len(w) - 1) |-> IF j < NextIndex(w, i) THEN w[j] ELSE w[j + 1]]

\* a healing step that takes two points out of the winding
HealShift_Two(w, i) == [j \in 1..(Len(w) - 2) |-> IF j < i THEN w[j] ELSE w[j + 1]]

\* for (j = i + 1; j < size; j++) w[j - 1] = w[j]; resize(size - 1)
\* (i is 1-based here: the point at position i is overwritten)
HealShift(w, i) == [j \in 1..(Len(w) - 1) |-> IF j < i THEN w[j] ELSE w[j + 1]]

RECURSIVE CheckFace(_, _, _, _)
RECURSIVE CheckFaceLoop(_, _, _, _, _)
\* CheckFaceLoop without the recursive re-validation after a healing step
CheckFaceLoop_NoRevalidate(w, i, planenum, opts, out) ==
    IF i > Len(w) THEN [w |-> w, log |-> out, fatal |-> "none"]
    ELSE
        LET p1 == w[i]
            p2 == w[NextIndex(w, i)]
            plane == get_plane(planenum)
            out1 == IF OffPlane(plane, p1, opts) THEN Append(out, "off plane") ELSE out
        IN  IF OutOfRange(p1, opts)
            THEN [w |-> w, log |-> out, fatal |-> "coordinate out of range"]
            ELSE IF LengthBelowEpsilon(p1, p2, opts)
            THEN [w |-> HealShift(w, i), log |-> Append(out1, "healing degenerate edge"),
                  fatal |-> "none"]
            ELSE IF \E j \in 1..Len(w) :
                        j # i /\ InFrontOfEdge(w[j], p1, p2, plane.normal, opts)
            THEN [w |-> <<>>, log |-> Append(out1, "non-convex face"), fatal |-> "none"]
            ELSE CheckFaceLoop(w, i + 1, planenum, opts, out1)

\* the loop body for point i (1-based) and the iterations after it
CheckFaceLoop(w, i, planenum, opts, out) ==
    IF i > Len(w) THEN [w |-> w, log |-> out, fatal |-> "none"]
    ELSE
        LET p1 == w[i]
            p2 == w[NextIndex(w, i)]
            plane == get_plane(planenum)
            out1 == IF OffPlane(plane, p1, opts) THEN Append(out, "off plane") ELSE out
        IN  IF OutOfRange(p1, opts)
            THEN [w |-> w, log |-> out, fatal |-> "coordinate out of range"]
            ELSE IF LengthBelowEpsilon(p1, p2, opts)
            THEN CheckFace(HealShift(w, i), planenum, opts,
                           Append(out1, "healing degenerate edge"))
            ELSE IF \E j \in 1..Len(w) :
                        j # i /\ InFrontOfEdge(w[j], p1, p2, plane.normal, opts)
            THEN [w |-> <<>>, log |-> Append(out1, "non-convex face"), fatal |-> "none"]
            ELSE CheckFaceLoop(w, i + 1, planenum, opts, out1)

\* CheckFace that returns after its first healing step
CheckFace_OneStep(w, planenum, opts, out) ==
    IF Len(w) < 3
    THEN [w |-> <<>>, log |-> Append(out, "too few points"), fatal |-> "none"]
    ELSE CheckFaceLoop_NoRevalidate(w, 1, planenum, opts, out)

\* CheckFace(face, sourceface): the winding left in the side, the messages
\* printed (appended to out) and whether FError was raised
CheckFace(w, planenum, opts, out) ==
    IF Len(w) < 3
    THEN [w |-> <<>>, log |-> Append(out, "too few points"), fatal |-> "none"]
    ELSE CheckFaceLoop(w, 1, planenum, opts, out)


(***************************************************************************)
(* Contents (contentflags_t) and the game policy (gamedef_t)               *)
(***************************************************************************)
\* the hull number of the pass that keeps every brush
HULL_COLLISION == -1

NativeKinds == {"empty", "solid", "water", "sky", "clip", "origin"}

\* a contents value with no extended flag set
Contents(native) ==
    [native |-> native, detail |-> "none", mirrored |-> "unset",
     clips_same_type |-> "unset", illusionary_visblocker |-> FALSE]

create_empty_contents == Contents("empty")

create_solid_contents == Contents("solid")

create_detail_solid_contents(c) == [Contents("solid") EXCEPT !.detail = "detail"]

create_detail_fence_contents(c) == [Contents("solid") EXCEPT !.detail = "fence"]

create_detail_illusionary_contents(c) == [Contents("solid") EXCEPT !.detail = "illusionary"]

is_empty(c) == c.native = "empty" /\ c.detail = "none"

is_solid(c) == c.native = "solid" /\ c.detail = "none"

is_sky(c) == c.native = "sky"

is_clip(c) == c.native = "clip"

is_origin(c) == c.native = "origin"

types_equal(a, b) == a.native = b.native /\ a.detail = b.detail

is_valid(c) == c.native \in NativeKinds

\* the contents the policy derives from a face's texture name and flags
face_get_contents(mapface) == Contents(mapface.contents)

(***************************************************************************)
(* Bounding boxes (aabb3d)                                                 *)
(***************************************************************************)
MinOf(S) == CHOOSE x \in S : \A y \in S : x <= y

MaxOf(S) == CHOOSE x \in S : \A y \in S : x >= y

\* aabb3d{}: the box that holds nothing
EmptyBounds == [valid |-> FALSE, mins |-> <<0, 0, 0>>, maxs |-> <<0, 0, 0>>]

unionWith(a, b) ==
    IF ~a.valid THEN b
    ELSE IF ~b.valid THEN a
    ELSE [valid |-> TRUE,
          mins |-> [k \in 1..3 |-> MinOf({a.mins[k], b.mins[k]})],
          maxs |-> [k \in 1..3 |-> MaxOf({a.maxs[k], b.maxs[k]})]]

\* winding_t::bounds()
WindingBounds(w) ==
    IF Len(w) = 0 THEN EmptyBounds
    ELSE [valid |-> TRUE,
          mins |-> [k \in 1..3 |-> MinOf({w[i][k] : i \in 1..Len(w)})],
          maxs |-> [k \in 1..3 |-> MaxOf({w[i][k] : i \in 1..Len(w)})]]

RECURSIVE SidesBounds(_, _)
\* the union of the bounds of the windings of sides[1..n]
SidesBounds(sides, n) ==
    IF n = 0 THEN EmptyBounds
    ELSE unionWith(SidesBounds(sides, n - 1), WindingBounds(sides[n].w))

\* update_bounds without the reset of the old bounds
update_bounds_NoReset(brush) ==
    [brush EXCEPT !.bounds = unionWith(brush.bounds, SidesBounds(brush.sides, Len(brush.sides)))]

\* bspbrush_t::update_bounds (the bounding sphere is not modelled)
update_bounds(brush) ==
    [brush EXCEPT !.bounds = SidesBounds(brush.sides, Len(brush.sides))]

(***************************************************************************)
(* Brush_GetContents (brush.cc)                                            *)
(***************************************************************************)
RECURSIVE GetContentsLoop(_, _, _, _, _)
\* the loop over mapbrush->faces from face i on, with `continue` after a mismatch
GetContentsLoop_Continue(faces, i, base_contents_set, base_contents, out) ==
    IF i > Len(faces) THEN [contents |-> base_contents, log |-> out]
    ELSE
        LET contents == face_get_contents(faces[i])
            base == IF base_contents_set THEN base_contents ELSE contents
        IN  IF is_empty(contents)
            THEN GetContentsLoop(faces, i + 1, base_contents_set, base_contents, out)
            ELSE IF ~types_equal(contents, base)
            THEN GetContentsLoop(faces, i + 1, TRUE, base,
                                 Append(out, "mixed face contents"))
            ELSE GetContentsLoop(faces, i + 1, TRUE, base, out)

\* the loop over mapbrush->faces from face i on
GetContentsLoop(faces, i, base_contents_set, base_contents, out) ==
    IF i > Len(faces) THEN [contents |-> base_contents, log |-> out]
    ELSE
        LET contents == face_get_contents(faces[i])
            base == IF base_contents_set THEN base_contents ELSE contents
        IN  IF is_empty(contents)
            THEN GetContentsLoop(faces, i + 1, base_contents_set, base_contents, out)
            ELSE IF ~types_equal(contents, base)
            THEN [contents |-> base, log |-> Append(out, "mixed face contents")]
            ELSE GetContentsLoop(faces, i + 1, TRUE, base, out)

\* Brush_GetContents(mapbrush): the contents, the messages printed and
\* whether the validity assertion failed
Brush_GetContents(mb, out) ==
    LET r == GetContentsLoop(mb.faces, 1, FALSE, create_empty_contents, out)
    IN  [contents |-> r.contents, log |-> r.log,
         fatal |-> IF is_valid(r.contents) THEN "none" ELSE "Q_assert"]

(***************************************************************************)
(* LoadBrush (brush.cc)                                                    *)
(***************************************************************************)
RECURSIVE LoadSides(_, _, _, _, _, _)
\* LoadSides dropping the sides whose winding the Face Validator emptied
LoadSides_DropEmpty(faces, i, hull, opts, sides, out) ==
    IF i > Len(faces) THEN [sides |-> sides, log |-> out, fatal |-> "none"]
    ELSE IF faces[i].bevel THEN LoadSides(faces, i + 1, hull, opts, sides, out)
    ELSE
        LET src == faces[i]
            r == CheckFace(src.winding, src.planenum, opts, out)
            dst == [texinfo |-> IF hull > 0 THEN 0 ELSE src.texinfo,
                    planenum |-> src.planenum, bevel |-> src.bevel,
                    w |-> r.w, lmshift |-> 0]
        IN  IF r.fatal # "none"
            THEN [sides |-> Append(sides, dst), log |-> r.log, fatal |-> r.fatal]
            ELSE IF r.w = <<>>
            THEN LoadSides(faces, i + 1, hull, opts, sides, r.log)
            ELSE LoadSides(faces, i + 1, hull, opts, Append(sides, dst), r.log)

\* the loop over mapbrush->faces from face i on
LoadSides(faces, i, hull, opts, sides, out) ==
    IF i > Len(faces) THEN [sides |-> sides, log |-> out, fatal |-> "none"]
    ELSE IF faces[i].bevel THEN LoadSides(faces, i + 1, hull, opts, sides, out)
    ELSE
        LET src == faces[i]
            r == CheckFace(src.winding, src.planenum, opts, out)
            dst == [texinfo |-> IF hull > 0 THEN 0 ELSE src.texinfo,
                    planenum |-> src.planenum, bevel |-> src.bevel,
                    w |-> r.w, lmshift |-> 0]
        IN  IF r.fatal # "none"
            THEN [sides |-> Append(sides, dst), log |-> r.log, fatal |-> r.fatal]
            ELSE LoadSides(faces, i + 1, hull, opts, Append(sides, dst), r.log)

\* LoadBrush(src, mapbrush, contents, hullnum): <<brush>> (the optional always
\* holds a value), the messages printed and whether CheckFace aborted
LoadBrush(mb, contents, hull, opts, out) ==
    LET r == LoadSides(mb.faces, 1, hull, opts, <<>>, out)
    IN  [brush |-> IF r.fatal # "none" THEN <<>>
                   ELSE <<[contents |-> contents, sides |-> r.sides, bounds |-> mb.bounds,
                           mapbrush |-> mb, lmshift |-> 0, func_areaportal |-> FALSE]>>,
         log |-> r.log, fatal |-> r.fatal]

(***************************************************************************)
(* Brush_LoadEntity (brush.cc): the Entity Brush Aggregator                *)
(***************************************************************************)
MapBrush_IsHint(mb) == \E i \in 1..Len(mb.faces) : mb.faces[i].is_hint

\* the entities whose brushes are added to the worldspawn
IsWorldBrushEntity(entity) ==
    entity.classname \in {"func_group", "func_detail", "func_detail_fence",
                          "func_detail_wall", "func_detail_illusionary"}

\* all_detail, all_detail_fence, all_detail_illusionary as the classname sets them
ClassDetailFlags(classname) ==
    [detail |-> classname = "func_detail",
     fence |-> classname \in {"func_detail_fence", "func_detail_wall"},
     illusionary |-> classname = "func_detail_illusionary"]

\* the values the three flags can hold when the brush loop reads them: they
\* are assigned only when nodetail is off, and are indeterminate otherwise (a
\* call that returns early or has no brush to loop over never reads them)
DetailFlagValues(src, opts) ==
    IF opts.nodetail /\ ~src.omitbrushes /\ src.mapbrushes # <<>>
    THEN [detail : BOOLEAN, fence : BOOLEAN, illusionary : BOOLEAN]
    ELSE {ClassDetailFlags(src.classname)}

\* lmshift from 16 * _lmscale: the number of halvings down to 1
RECURSIVE LmShift(_)
LmShift(i) == IF i > 1 THEN 1 + LmShift(i \div 2) ELSE 0

\* the discards before any contents rewrite: origin brushes, omitted detail
EarlyDiscard(contents, f, opts) ==
    \/ is_origin(contents)
    \/ opts.omitdetail /\ f.detail
    \/ (opts.omitdetail \/ opts.omitdetailillusionary) /\ f.illusionary
    \/ (opts.omitdetail \/ opts.omitdetailfence) /\ f.fence

\* the promotion made in hull 0 only
DetailPromotion_HullZero(contents, f, hull) ==
    IF hull = 0 /\ is_solid(contents)
    THEN IF f.illusionary THEN create_detail_illusionary_contents(contents)
         ELSE IF f.fence THEN create_detail_fence_contents(contents)
         ELSE IF f.detail THEN create_detail_solid_contents(contents)
         ELSE contents
    ELSE contents

\* solid brushes of detail entities become detail in hull 0 and HULL_COLLISION
DetailPromotion(contents, f, hull) ==
    IF hull <= 0 /\ is_solid(contents)
    THEN IF f.illusionary THEN create_detail_illusionary_contents(contents)
         ELSE IF f.fence THEN create_detail_fence_contents(contents)
         ELSE IF f.detail THEN create_detail_solid_contents(contents)
         ELSE contents
    ELSE contents

\* the clip rule without the exception for HULL_COLLISION
ClipRule_NoSentinel(contents, hull) ==
    IF is_clip(contents)
    THEN IF hull = 0 THEN "bounds" ELSE "solid"
    ELSE "keep"

\* the clip rule: "bounds" (load for the bounds only), "solid" or "keep"
ClipRule(contents, hull) ==
    IF hull # HULL_COLLISION /\ is_clip(contents)
    THEN IF hull = 0 THEN "bounds" ELSE "solid"
    ELSE "keep"

\* the hint rule without the downgrade to empty
HintRule_NoEmpty(mb, hull) ==
    IF MapBrush_IsHint(mb)
    THEN IF hull > 0 THEN "skip" ELSE "keep"
    ELSE "keep"

\* the hint rule: "skip", "empty" or "keep"
HintRule(mb, hull) ==
    IF MapBrush_IsHint(mb)
    THEN IF hull > 0 THEN "skip" ELSE "empty"
    ELSE "keep"

\* the rule without the _mirrorinside hack
BmodelRule_NoFence(contents, dst_is_world, gm, hull, mirrorinside) ==
    IF ~dst_is_world /\ ~gm.allow_contented_bmodels
    THEN create_solid_contents
    ELSE contents

\* brush entities of games without contented bmodels are solid
BmodelRule(contents, dst_is_world, gm, hull, mirrorinside) ==
    IF ~dst_is_world /\ ~gm.allow_contented_bmodels
    THEN IF hull <= 0 /\ mirrorinside = "true"
         THEN create_detail_fence_contents(create_solid_contents)
         ELSE create_solid_contents
    ELSE contents

\* no filter: nonsolid brushes stay in clipping hulls
NonSolidFilter_Off(contents, hull) == FALSE

\* the illusionary exclusion switched off
IllusionaryExclusion_Off(f, hull) == FALSE

\* func_detail_illusionary brushes don't exist in the collision hulls
IllusionaryExclusion(f, hull) == hull > 0 /\ f.illusionary

\* nonsolid brushes don't show up in clipping hulls
NonSolidFilter(contents, hull) == hull > 0 /\ ~is_solid(contents) /\ ~is_sky(contents)

\* what one source brush becomes: verdict "skip", "bounds" or "load", and the
\* contents it is loaded with
BrushVerdict(mb, c0, src, f, hull, dst_is_world, opts, gm) ==
    LET c1 == DetailPromotion(c0, f, hull)
        clip == ClipRule(c1, hull)
        c2 == IF clip = "solid" THEN create_solid_contents ELSE c1
        hint == HintRule(mb, hull)
        c3 == IF hint = "empty" THEN create_empty_contents ELSE c2
        c4 == BmodelRule(c3, dst_is_world, gm, hull, src.mirrorinside)
        c5 == IF hull > 0 /\ is_sky(c4) THEN create_solid_contents ELSE c4
        c6 == [c5 EXCEPT !.mirrored = src.mirrorinside,
                         !.clips_same_type = src.clipsametype,
                         !.illusionary_visblocker =
                             (src.classname = "func_illusionary_visblocker")]
    IN  IF EarlyDiscard(c0, f, opts) THEN [verdict |-> "skip", contents |-> c0]
        ELSE IF IllusionaryExclusion(f, hull) THEN [verdict |-> "skip", contents |-> c1]
        ELSE IF clip = "bounds" THEN [verdict |-> "bounds", contents |-> c1]
        ELSE IF hint = "skip" THEN [verdict |-> "skip", contents |-> c2]
        ELSE IF NonSolidFilter(c4, hull) THEN [verdict |-> "skip", contents |-> c4]
        ELSE [verdict |-> "load", contents |-> c6]

\* the brush after the aggregator has stamped lmshift and the areaportal tag
StampBrush(brush, src) ==
    LET lmshift == LmShift(IF src.lmscale16 = 0 THEN 16 ELSE src.lmscale16)
    IN  [brush EXCEPT !.lmshift = lmshift,
                      !.sides = [k \in 1..Len(brush.sides) |->
                                    [brush.sides[k] EXCEPT !.lmshift = lmshift]],
                      !.func_areaportal = (src.classname = "func_areaportal")]

\* the loop over src->mapbrushes from brush i on; d holds dst's brushes and
\* bounds, the statistics, the log and the fatal error
RECURSIVE LoadEntityLoop(_, _, _, _, _, _, _, _)
LoadEntityLoop(d, src, i, f, hull, dst_is_world, opts, gm) ==
    IF i > Len(src.mapbrushes) \/ d.fatal # "none" THEN d
    ELSE
        LET mb == src.mapbrushes[i]
            g == Brush_GetContents(mb, d.log)
            v == BrushVerdict(mb, g.contents, src, f, hull, dst_is_world, opts, gm)
            r == LoadBrush(mb, v.contents, hull, opts, g.log)
            d1 == IF g.fatal # "none" THEN [d EXCEPT !.log = g.log, !.fatal = g.fatal]
                  ELSE IF v.verdict = "skip" THEN [d EXCEPT !.log = g.log]
                  ELSE IF r.fatal # "none" THEN [d EXCEPT !.log = r.log, !.fatal = r.fatal]
                  ELSE IF v.verdict = "bounds"
                  THEN [d EXCEPT !.log = r.log,
                                 !.bounds = unionWith(d.bounds, r.brush[1].bounds)]
                  ELSE [d EXCEPT !.log = r.log,
                                 !.stats = Append(d.stats, r.brush[1].contents),
                                 !.brushes = Append(d.brushes, StampBrush(r.brush[1], src)),
                                 !.bounds = unionWith(d.bounds, r.brush[1].bounds)]
        IN  LoadEntityLoop(d1, src, i + 1, f, hull, dst_is_world, opts, gm)

\* static Brush_LoadEntity(dst, src, hullnum, stats)
LoadEntityFrom(d, src, f, hull, dst_is_world, opts, gm) ==
    IF src.omitbrushes THEN d
    ELSE LoadEntityLoop(d, src, 1, f, hull, dst_is_world, opts, gm)

\* the entities from index i on whose brushes the world receives, in map order
RECURSIVE Donors(_, _)
Donors(ents, i) ==
    IF i > Len(ents) THEN <<>>
    ELSE (IF IsWorldBrushEntity(ents[i]) THEN <<i>> ELSE <<>>) \o Donors(ents, i + 1)

\* the source entities of Brush_LoadEntity(entity, hullnum), in load order
Sources(ents, e) == <<e>> \o (IF e = 1 THEN Donors(ents, 2) ELSE <<>>)

\* Brush_LoadEntity(entity, hullnum) over the sources from position k on; fl
\* gives the detail flags each static call reads
RECURSIVE LoadSources(_, _, _, _, _, _, _, _, _)
LoadSources(d, ents, srcs, k, fl, hull, dst_is_world, opts, gm) ==
    IF k > Len(srcs) THEN d
    ELSE LoadSources(LoadEntityFrom(d, ents[srcs[k]], fl[srcs[k]], hull, dst_is_world, opts, gm),
                     ents, srcs, k + 1, fl, hull, dst_is_world, opts, gm)

\* Brush_LoadEntity(entity, hullnum): entity e's brushes and bounds, the
\* statistics, the log and the fatal error afterwards
Brush_LoadEntity(ents, e, fl, hull, opts, gm, out) ==
    LoadSources([brushes |-> ents[e].brushes, bounds |-> ents[e].bounds,
                 stats |-> <<>>, log |-> out, fatal |-> "none"],
                ents, Sources(ents, e), 1, fl, hull, e = 1, opts, gm)

(***************************************************************************)
(* The windings and settings given to the Face Validator                   *)
(***************************************************************************)
GridPoints == {<<x, y, 0>> : x \in 0..GridMax, y \in 0..GridMax}

\* a point off the z = 0 plane by more than epsilon, and one outside the world
OffPlanePoint == <<0, 0, GridMax + 1>>
FarPoint == <<GridMax + 2, 0, 0>>

FacePoints == GridPoints \cup {OffPlanePoint, FarPoint}

Windings == UNION {[1..n -> FacePoints] : n \in 0..MaxPoints}

EpsilonSqs == {0, 1, 2}

FaceOptions ==
    [epsilonSq : EpsilonSqs, worldextent : {GridMax + 1}]

BrushOptions == [epsilonSq : {0, 1}, worldextent : {GridMax + 1}]

(***************************************************************************)
(* Source brushes, and the specifications of the Contents Classifier and   *)
(* of the Brush Loader                                                     *)
(***************************************************************************)
MapFace(contents, is_hint, bevel, texinfo, planenum, winding) ==
    [contents |-> contents, is_hint |-> is_hint, bevel |-> bevel, texinfo |-> texinfo,
     planenum |-> planenum, winding |-> winding]

RECURSIVE FacesBounds(_, _)
FacesBounds(faces, n) ==
    IF n = 0 THEN EmptyBounds
    ELSE unionWith(FacesBounds(faces, n - 1), WindingBounds(faces[n].winding))

\* a mapbrush_t: its bounds were computed from its windings when the map was loaded
MapBrush(faces) == [faces |-> faces, bounds |-> FacesBounds(faces, Len(faces))]

Square == << <<0, 0, 0>>, <<1, 0, 0>>, <<1, 1, 0>>, <<0, 1, 0>> >>
DupTriangle == << <<0, 0, 0>>, <<0, 0, 0>>, <<1, 0, 0>>, <<0, 1, 0>> >>
BowTie == << <<0, 0, 0>>, <<1, 1, 0>>, <<1, 0, 0>>, <<0, 1, 0>> >>
FarTriangle == << <<0, 0, 0>>, <<1, 0, 0>>, FarPoint >>

\* a winding with a duplicated point, a self-crossing one, one with a point
\* outside the world
WindingSamples == {DupTriangle, BowTie, FarTriangle}

FaceKinds == {"empty", "solid", "water", "sky", "clip"}

\* faces that differ in the contents of their texture only
ContentsFaces == {MapFace(c, FALSE, FALSE, 1, 0, Square) : c \in FaceKinds}

\* solid faces that differ in the bevel flag, texinfo, plane and winding
GeometryFaces ==
    {MapFace("solid", FALSE, b, t + 1, t, w) : b \in BOOLEAN, t \in 0..1, w \in WindingSamples}

FaceLists(S) == UNION {[1..n -> S] : n \in 0..MaxFaces}

HullNumbers == {HULL_COLLISION, 0, 1}

(***************************************************************************)
(* Maps, games and settings given to the hull driver                       *)
(***************************************************************************)
Translate(w, dx, dy) == [k \in 1..Len(w) |-> <<w[k][1] + dx, w[k][2] + dy, w[k][3]>>]

\* one-face source brushes of each contents, each at its own place, a solid
\* brush with a hint face, a solid brush whose only face is a bevel, and the
\* solid brush of the worldspawn
SampleBrush(kind) ==
    CASE kind = "solid"  -> MapBrush(<<MapFace("solid", FALSE, FALSE, 1, 0, Square)>>)
      [] kind = "clip"   -> MapBrush(<<MapFace("clip", FALSE, FALSE, 1, 0, Translate(Square, -2, 0))>>)
      [] kind = "sky"    -> MapBrush(<<MapFace("sky", FALSE, FALSE, 1, 0, Translate(Square, 0, -2))>>)
      [] kind = "water"  -> MapBrush(<<MapFace("water", FALSE, FALSE, 1, 0, Translate(Square, 1, 0))>>)
      [] kind = "origin" -> MapBrush(<<MapFace("origin", FALSE, FALSE, 1, 0, Translate(Square, 0, 1))>>)
      [] kind = "hint"   -> MapBrush(<<MapFace("solid", FALSE, FALSE, 1, 0, Translate(Square, -2, -2)),
                                       MapFace("empty", TRUE, FALSE, 1, 1, Translate(Square, -2, -2))>>)
      [] kind = "bevel"  -> MapBrush(<<MapFace("solid", FALSE, TRUE, 1, 0, Translate(Square, 1, 1))>>)
      [] kind = "floor"  -> MapBrush(<<MapFace("solid", FALSE, FALSE, 1, 0, Translate(Square, -1, -1))>>)

BrushKinds == {"solid", "clip", "sky", "water", "origin", "hint", "bevel"}

BrushLists(kinds) == UNION {[1..n -> {SampleBrush(k) : k \in kinds}] : n \in 0..MaxBrushes}

Classnames == {"func_group", "func_detail", "func_detail_fence", "func_detail_illusionary",
               "func_wall", "func_areaportal"}

\* a mapentity_t as the map loader leaves it
MapEntity(classname, omitbrushes, mirrorinside, mapbrushes) ==
    [classname |-> classname, omitbrushes |-> omitbrushes, mirrorinside |-> mirrorinside,
     clipsametype |-> "unset", lmscale16 |-> 0, mapbrushes |-> mapbrushes,
     brushes |-> <<>>, bounds |-> EmptyBounds, outputmodelnumber |-> -1]

\* a worldspawn followed by one other entity
Maps ==
    {<<MapEntity("worldspawn", FALSE, "unset", wb), MapEntity(c, k[1], k[2], b)>> :
        wb \in BrushLists({"floor"}), c \in Classnames,
        k \in {<<FALSE, "unset">>, <<TRUE, "unset">>, <<FALSE, "true">>},
        b \in BrushLists(BrushKinds)}

\* games with and without hulls, with and without contented bmodels
Games == [hulls : {0, NumHulls}, allow_contented_bmodels : BOOLEAN]

DriverOptions ==
    [epsilonSq : {1}, worldextent : {GridMax + 1}, noclip : BOOLEAN, wrbrushes : BOOLEAN,
     nodetail : {FALSE}, omitdetail : {FALSE}, omitdetailillusionary : {FALSE},
     omitdetailfence : {FALSE}]

\* every combination of the omit flags, all hulls and the brush list export
AggregatorOptions ==
    [epsilonSq : {1}, worldextent : {GridMax + 1}, noclip : {FALSE}, wrbrushes : {TRUE},
     nodetail : {FALSE}, omitdetail : BOOLEAN, omitdetailillusionary : BOOLEAN,
     omitdetailfence : BOOLEAN]

\* the same with nodetail set
NodetailOptions == {[o EXCEPT !.nodetail = TRUE] : o \in AggregatorOptions}

(***************************************************************************)
(* Brush Bevel/Export (qbsp.cc): AddBrushBevels                            *)
(*                                                                         *)
(* A plane of this part has an integer normal that is not normalised and   *)
(* the matching integer dist; FindPlane reduces the four numbers by their  *)
(* common divisor, so two planes are equal exactly when they are the same  *)
(* plane facing the same way.  Lengths are compared by their squares.      *)
(***************************************************************************)
RECURSIVE GCD(_, _)
GCD(a, b) == IF b = 0 THEN Abs(a) ELSE GCD(Abs(b), Abs(a) % Abs(b))

\* FindPlane(plane, nullptr) followed by ExportMapPlane: the exported plane
\* number stands for the plane itself, equal planes get the same number
FindPlane(normal, dist) ==
    LET g == GCD(GCD(normal[1], normal[2]), GCD(normal[3], dist))
    IN  [normal |-> [k \in 1..3 |-> normal[k] \div g], dist |-> dist \div g]

\* qvec3d with vec[axis] = dir and zero elsewhere
AxisVec(axis, dir) == [k \in 1..3 |-> IF k = axis THEN dir ELSE 0]

\* the axis and the direction of the order-th turn of the axial loop
OrderAxis(order) == (order \div 2) + 1

OrderDir(order) == IF order % 2 = 0 THEN -1 ELSE 1

\* dplanes[...].normal[axis] == dir, for a unit normal
IsAxialPlane(plane, axis, dir) ==
    /\ plane.normal[axis] * dir > 0
    /\ \A k \in (1..3) \ {axis} : plane.normal[k] = 0

\* the planes already present: one entry per face, in face order
FacePlanes(b) == [i \in 1..Len(b.faces) |-> [plane |-> b.faces[i].plane, face |-> i]]

\* the axial loop leaving every plane where it was found or appended
SwapToOrder_Never(planes, i, order) == planes

\* if (i != order) std::swap(planes[i], planes[order])
SwapToOrder(planes, i, order) ==
    IF i # order THEN [planes EXCEPT ![i] = planes[order], ![order] = planes[i]] ELSE planes

RECURSIVE AxialLoop(_, _, _)
\* the six turns of the axial loop, from turn order on
AxialLoop(b, planes, order) ==
    IF order = 6 THEN planes
    ELSE LET axis == OrderAxis(order)
             dir == OrderDir(order)
             found == {i \in 1..Len(planes) : IsAxialPlane(planes[i].plane, axis, dir)}
             i == IF found = {} THEN Len(planes) + 1 ELSE MinOf(found)
             new_plane == FindPlane(AxisVec(axis, dir),
                                    IF dir = 1 THEN b.bounds.maxs[axis] ELSE -b.bounds.mins[axis])
             added == IF found = {} THEN Append(planes, [plane |-> new_plane, face |-> 1])
                      ELSE planes
         IN  AxialLoop(b, SwapToOrder(added, i, order + 1), order + 1)

\* an edge direction with a component of -1 or 1 once normalised and snapped
IsAxialEdge(vec) == \E k \in 1..3 : vec[k] # 0 /\ \A m \in (1..3) \ {k} : vec[m] = 0

\* current.distance_to(p) > 0.1
InFrontOfBevel(current, p) ==
    LET d == distance_to(current, p)
    IN  d > 0 /\ 100 * d * d > Dot(current.normal, current.normal)

\* the loop over b.faces: the candidate is no face plane and no point of a
\* face winding is in front of it
IsEdgeBevel(b, current) ==
    \A f \in 1..Len(b.faces) :
        /\ b.faces[f].plane # current
        /\ \A l \in 1..Len(b.faces[f].w) : ~InFrontOfBevel(current, b.faces[f].w[l])

RECURSIVE EdgeBevels(_, _, _, _)
\* the edges of winding w and the six slanted axials of each, in loop order:
\* n counts the (edge, axis, dir) turns already taken
EdgeBevels(b, w, n, out) ==
    IF n = 6 * Len(w) THEN out
    ELSE LET j == (n \div 6) + 1
             vec == Sub(w[j], w[NextIndex(w, j)])
             vec2 == AxisVec(OrderAxis(n % 6), OrderDir(n % 6))
             normal == Cross(vec, vec2)
             current == FindPlane(normal, Dot(w[j], normal))
             skip == \/ 4 * Dot(vec, vec) < 1
                     \/ IsAxialEdge(vec)
                     \/ 4 * Dot(normal, normal) < Dot(vec, vec)
                     \/ ~IsEdgeBevel(b, current)
         IN  EdgeBevels(b, w, n + 1,
                        IF skip THEN out ELSE Append(out, [plane |-> current, face |-> 1]))

RECURSIVE BevelLoop(_, _, _, _)
\* for (i = 6; i < edges_to_test; i++), i counted from 1
BevelLoop(b, planes, i, edges_to_test) ==
    IF i > edges_to_test THEN planes
    ELSE BevelLoop(b, EdgeBevels(b, b.faces[planes[i].face].w, 0, planes), i + 1, edges_to_test)

AddBrushBevels(b) ==
    LET axial == AxialLoop(b, FacePlanes(b), 0)
    IN  IF Len(axial) = 6 THEN axial ELSE BevelLoop(b, axial, 7, Len(axial))

(***************************************************************************)
(* Inputs of the bevel computation: boxes, tetrahedra and octahedra        *)
(***************************************************************************)
\* a brush_t: faces with their plane (planeside applied), winding and texinfo
BevelBrush(faces) == [faces |-> faces, bounds |-> SidesBounds(faces, Len(faces))]

\* the face of the box mins..maxs on the side the order-th axial plane faces
BoxFace(order, mins, maxs) ==
    LET axis == OrderAxis(order)
        dir == OrderDir(order)
        u == (axis % 3) + 1
        v == (u % 3) + 1
        c == IF dir = 1 THEN maxs[axis] ELSE mins[axis]
        P(a, bb) == [k \in 1..3 |-> IF k = axis THEN c ELSE IF k = u THEN a ELSE bb]
    IN  [plane |-> FindPlane(AxisVec(axis, dir), dir * c),
         w |-> << P(mins[u], mins[v]), P(maxs[u], mins[v]), P(maxs[u], maxs[v]), P(mins[u], maxs[v]) >>,
         texinfo |-> order]

\* the orders in which the faces of a box are listed; a list of one face is
\* a brush that kept a single face
BoxOrders ==
    {<<0, 1, 2, 3, 4, 5>>, <<5, 0, 3, 4, 1, 2>>} \cup {<<k>> : k \in 0..5}

\* the boxes mins .. mins + size with their faces listed in one of BoxOrders
Boxes ==
    {BevelBrush([i \in 1..Len(orders) |->
                    BoxFace(orders[i], mins, [k \in 1..3 |-> mins[k] + size[k]])]) :
        mins \in [1..3 -> {-1, 0}], size \in [1..3 -> 1..BevelMax], orders \in BoxOrders}

\* the face on triangle tri of the convex solid with vertices verts
TriFace(tri, verts, texinfo) ==
    LET n == Cross(Sub(tri[2], tri[1]), Sub(tri[3], tri[1]))
        flip == \E p \in verts : Dot(n, Sub(p, tri[1])) > 0
        normal == IF flip THEN Sub(<<0, 0, 0>>, n) ELSE n
    IN  [plane |-> FindPlane(normal, Dot(normal, tri[1])),
         w |-> IF flip THEN <<tri[1], tri[3], tri[2]>> ELSE tri,
         texinfo |-> texinfo]

SimplexBrush(tris) ==
    LET verts == UNION {{t[1], t[2], t[3]} : t \in {tris[i] : i \in 1..Len(tris)}}
    IN  BevelBrush([i \in 1..Len(tris) |-> TriFace(tris[i], verts, i)])

\* the tetrahedron with a corner at the origin and a leg along every axis
Tetrahedron(legs) ==
    LET o == <<0, 0, 0>>
        a == AxisVec(1, legs[1])
        bb == AxisVec(2, legs[2])
        c == AxisVec(3, legs[3])
    IN  SimplexBrush(<< <<a, bb, c>>, <<o, a, bb>>, <<o, bb, c>>, <<o, c, a>> >>)

\* the octahedron |x| + |y| + |z| <= r
Octahedron(r) ==
    LET S(n, k) == IF (n \div (2 ^ (k - 1))) % 2 = 0 THEN r ELSE -r
    IN  SimplexBrush([n \in 1..8 |->
            << AxisVec(1, S(n - 1, 1)), AxisVec(2, S(n - 1, 2)), AxisVec(3, S(n - 1, 3)) >>])

BevelBrushes ==
    Boxes
    \cup {Tetrahedron(legs) : legs \in [1..3 -> (-BevelMax..BevelMax) \ {0}]}
    \cup {Octahedron(r) : r \in 1..BevelMax}

(***************************************************************************)
(* Specifications: each one starts the part of the pipeline it exercises   *)
(* from its inputs and leaves the other parts idle.                        *)
(***************************************************************************)
RotateIdle ==
    /\ rotate_ents = <<>>
    /\ rotate_next = 1
    /\ rotate_found = 0

AreaIdle ==
    /\ c_areas = 0
    /\ map_entities = <<>>
    /\ dareas = <<>>
    /\ dareaportals = <<>>

PercentIdle ==
    /\ flag_locked = FALSE
    /\ percent_pc = <<>>
    /\ percent_call = <<>>
    /\ is_timing = FALSE
    /\ last_count = -1

SettingsIdle ==
    /\ settings = <<>>
    /\ parser = <<>>
    /\ parse_status = "returned"
    /\ remainder = <<>>
    /\ last_set = <<>>

ExportIdle ==
    /\ dbrushes = <<>>
    /\ dbrushsides = <<>>
    /\ brush_offset = 0
    /\ exported = <<>>

BevelIdle ==
    /\ bb_brush = [faces |-> <<>>, bounds |-> EmptyBounds]
    /\ bb_planes = <<>>

BrushIdle ==
    /\ mapbrush = MapBrush(<<>>)
    /\ lb_contents = <<>>
    /\ lb_hullnum = 0
    /\ lb_brush = <<>>
    /\ lb_stage = "source"

PipeIdle ==
    /\ game = [hulls |-> 0, allow_contented_bmodels |-> FALSE]
    /\ entities = <<>>
    /\ pc = "done"
    /\ hullnum = 0
    /\ entnum = 0
    /\ stats = <<>>
    /\ all_detail = <<>>

FaceIdle ==
    /\ cf_source = <<>>
    /\ cf_side = [w |-> <<>>, planenum |-> 0]
    /\ cf_checked = FALSE
    /\ cf_rerun = FALSE

InitFace ==
    /\ qbsp_options \in FaceOptions
    /\ log = <<>>
    /\ fatal = "none"
    /\ cf_source \in Windings
    /\ cf_side = [w |-> cf_source, planenum |-> 0]
    /\ cf_checked = FALSE
    /\ cf_rerun = FALSE
    /\ BrushIdle
    /\ PipeIdle
    /\ BevelIdle
    /\ ExportIdle
    /\ SettingsIdle
    /\ PercentIdle
    /\ AreaIdle
    /\ RotateIdle

CheckFaceCall ==
    /\ fatal = "none"
    /\ ~cf_rerun
    /\ LET r == CheckFace(cf_side.w, cf_side.planenum, qbsp_options, <<>>)
       IN  /\ cf_side' = [cf_side EXCEPT !.w = r.w]
           /\ log' = r.log
           /\ fatal' = r.fatal
    /\ cf_checked' = TRUE
    /\ cf_rerun' = cf_checked
    /\ UNCHANGED <<qbsp_options, cf_source, brush_vars, pipe_vars, bevel_vars, export_vars,
                   settings_vars, percent_vars, area_vars, rotate_vars>>

NextFace == CheckFaceCall

SpecFace == InitFace /\ [][NextFace]_vars

InitContents ==
    /\ qbsp_options \in FaceOptions
    /\ log = <<>>
    /\ fatal = "none"
    /\ FaceIdle
    /\ \E faces \in FaceLists(ContentsFaces) : mapbrush = MapBrush(faces)
    /\ lb_contents = <<>>
    /\ lb_hullnum = 0
    /\ lb_brush = <<>>
    /\ lb_stage = "source"
    /\ PipeIdle
    /\ BevelIdle
    /\ ExportIdle
    /\ SettingsIdle
    /\ PercentIdle
    /\ AreaIdle
    /\ RotateIdle

InitBrush ==
    /\ qbsp_options \in BrushOptions
    /\ log = <<>>
    /\ fatal = "none"
    /\ FaceIdle
    /\ \E faces \in FaceLists(GeometryFaces) : mapbrush = MapBrush(faces)
    /\ lb_contents = <<>>
    /\ lb_hullnum = 0
    /\ lb_brush = <<>>
    /\ lb_stage = "source"
    /\ PipeIdle
    /\ BevelIdle
    /\ ExportIdle
    /\ SettingsIdle
    /\ PercentIdle
    /\ AreaIdle
    /\ RotateIdle

GetContentsCall ==
    /\ fatal = "none"
    /\ lb_contents = <<>>
    /\ LET r == Brush_GetContents(mapbrush, log)
       IN  /\ lb_contents' = <<r.contents>>
           /\ log' = r.log
           /\ fatal' = r.fatal
    /\ UNCHANGED <<qbsp_options, face_vars, mapbrush, lb_hullnum, lb_brush, lb_stage, pipe_vars, bevel_vars,
                   export_vars, settings_vars, percent_vars, area_vars, rotate_vars>>

LoadBrushCall ==
    /\ fatal = "none"
    /\ lb_contents # <<>>
    /\ lb_stage = "source"
    /\ \E hull \in HullNumbers :
        LET r == LoadBrush(mapbrush, lb_contents[1], hull, qbsp_options, log)
        IN  /\ lb_hullnum' = hull
            /\ lb_brush' = r.brush
            /\ log' = r.log
            /\ fatal' = r.fatal
    /\ lb_stage' = "loaded"
    /\ UNCHANGED <<qbsp_options, face_vars, mapbrush, lb_contents, pipe_vars, bevel_vars,
                   export_vars, settings_vars, percent_vars, area_vars, rotate_vars>>

UpdateBoundsCall ==
    /\ fatal = "none"
    /\ lb_brush # <<>>
    /\ lb_brush' = <<update_bounds(lb_brush[1])>>
    /\ lb_stage' = "updated"
    /\ UNCHANGED <<common_vars, face_vars, mapbrush, lb_contents, lb_hullnum, pipe_vars, bevel_vars,
                   export_vars, settings_vars, percent_vars, area_vars, rotate_vars>>

NextContents == GetContentsCall

SpecContents == InitContents /\ [][NextContents]_vars

NextBrush == GetContentsCall \/ LoadBrushCall \/ UpdateBoundsCall

SpecBrush == InitBrush /\ [][NextBrush]_vars

(***************************************************************************)
(* The hull driver (qbsp.cc): CreateHulls, CreateSingleHull, ProcessEntity *)
(* and BSPX_CreateBrushList                                                *)
(***************************************************************************)
\* CreateHulls: the hull number of the first pass
FirstHull(gm) == IF gm.hulls = 0 THEN HULL_COLLISION ELSE 0

\* CreateHulls: whether a pass follows the pass of hull h
HasNextHull(gm, opts, h) == gm.hulls # 0 /\ ~opts.noclip /\ h + 1 < gm.hulls

InitPipe(options) ==
    /\ qbsp_options \in options
    /\ log = <<>>
    /\ fatal = "none"
    /\ FaceIdle
    /\ BrushIdle
    /\ BevelIdle
    /\ ExportIdle
    /\ SettingsIdle
    /\ PercentIdle
    /\ AreaIdle
    /\ RotateIdle
    /\ game \in Games
    /\ entities \in Maps
    /\ pc = "hulls"
    /\ hullnum = FirstHull(game)
    /\ entnum = 1
    /\ stats = <<>>
    /\ all_detail = <<>>

Init == InitPipe(DriverOptions)

InitAggregator == InitPipe(AggregatorOptions)

InitNodetail == InitPipe(NodetailOptions)

\* the detail flags each static Brush_LoadEntity call of one aggregation reads
FlagChoices(ents, e, opts) ==
    LET srcs == {Sources(ents, e)[k] : k \in 1..Len(Sources(ents, e))}
    IN  {fl \in [1..Len(ents) -> [detail : BOOLEAN, fence : BOOLEAN, illusionary : BOOLEAN]] :
            \A i \in 1..Len(ents) :
                fl[i] \in (IF i \in srcs THEN DetailFlagValues(ents[i], opts)
                          ELSE {ClassDetailFlags("")})}

\* the outcomes of Brush_LoadEntity(entity e, hull): one for each value the
\* detail flags can hold
LoadOutcomes(ents, e, hull, opts, gm, out) ==
    {[fl |-> fl, d |-> Brush_LoadEntity(ents, e, fl, hull, opts, gm, out)] :
        fl \in FlagChoices(ents, e, opts)}

\* the number of models exported so far
NumModels(ents) == Cardinality({i \in 1..Len(ents) : ents[i].outputmodelnumber >= 0})

\* the entity keeps the bounds of the pass before
InitEntity_KeepBounds(entity) == [entity EXCEPT !.brushes = <<>>]

\* ProcessEntity, "Init the entity": brushes.clear(), bounds = {}
InitEntity(entity) == [entity EXCEPT !.brushes = <<>>, !.bounds = EmptyBounds]

\* the check made for the hulls above 0 only
EmptyCheck_PositiveHull(d, hull) ==
    IF d.fatal # "none" THEN d.fatal
    ELSE IF d.brushes = <<>> /\ hull > 0 THEN "Entity with no valid brushes"
    ELSE "none"

\* ProcessEntity: the fatal error after Brush_LoadEntity has returned d
EmptyCheck(d, hull) ==
    IF d.fatal # "none" THEN d.fatal
    ELSE IF d.brushes = <<>> /\ hull # 0 THEN "Entity with no valid brushes"
    ELSE "none"

\* ProcessEntity up to the check that follows Brush_LoadEntity
ProcessEntityLoad ==
    /\ pc = "hulls"
    /\ fatal = "none"
    /\ entnum <= Len(entities)
    /\ LET entity == entities[entnum]
       IN  IF (entity.mapbrushes = <<>> /\ entnum # 1) \/ IsWorldBrushEntity(entity)
           THEN /\ entnum' = entnum + 1
                /\ UNCHANGED <<entities, pc, stats, all_detail, log, fatal>>
           ELSE LET numbered == IF entity.outputmodelnumber >= 0 THEN entity
                                ELSE [entity EXCEPT !.outputmodelnumber = NumModels(entities)]
                    cleared == [entities EXCEPT ![entnum] = InitEntity(numbered)]
                IN  \E r \in LoadOutcomes(cleared, entnum, hullnum, qbsp_options, game, log) :
                        /\ entities' = [cleared EXCEPT ![entnum].brushes = r.d.brushes,
                                                       ![entnum].bounds = r.d.bounds]
                        /\ stats' = r.d.stats
                        /\ all_detail' = r.fl
                        /\ log' = r.d.log
                        /\ fatal' = EmptyCheck(r.d, hullnum)
                        /\ pc' = "loaded"
                        /\ UNCHANGED entnum
    /\ UNCHANGED <<qbsp_options, face_vars, brush_vars, game, hullnum, bevel_vars, export_vars,
                   settings_vars, percent_vars, area_vars, rotate_vars>>

\* FreeBrushes that leaves the list alone
FreeBrushes_Keep(ents, e) == ents

\* FreeBrushes(entity)
FreeBrushes(ents, e) == [ents EXCEPT ![e].brushes = <<>>]

\* the rest of ProcessEntity: the tree is built from the brushes, then they are freed
ProcessEntityBuild ==
    /\ pc = "loaded"
    /\ fatal = "none"
    /\ entities' = FreeBrushes(entities, entnum)
    /\ entnum' = entnum + 1
    /\ pc' = "hulls"
    /\ stats' = <<>>
    /\ all_detail' = <<>>
    /\ UNCHANGED <<common_vars, face_vars, brush_vars, game, hullnum, bevel_vars, export_vars,
                   settings_vars, percent_vars, area_vars, rotate_vars>>

\* CreateSingleHull returns: CreateHulls starts the next pass, or ProcessFile
\* goes on to BSPX_CreateBrushList
CreateSingleHullDone ==
    /\ pc = "hulls"
    /\ fatal = "none"
    /\ entnum > Len(entities)
    /\ IF HasNextHull(game, qbsp_options, hullnum)
       THEN /\ hullnum' = hullnum + 1
            /\ pc' = "hulls"
            /\ entnum' = 1
       ELSE /\ hullnum' = HULL_COLLISION
            /\ pc' = IF qbsp_options.wrbrushes THEN "bspx" ELSE "done"
            /\ entnum' = 1
    /\ UNCHANGED <<common_vars, face_vars, brush_vars, game, entities, stats, all_detail, bevel_vars,
                   export_vars, settings_vars, percent_vars, area_vars, rotate_vars>>

\* BSPX_CreateBrushList, one entity, up to the return of Brush_LoadEntity
BSPXLoad ==
    /\ pc = "bspx"
    /\ fatal = "none"
    /\ entnum <= Len(entities)
    /\ LET ent == entities[entnum]
       IN  IF entnum # 1 /\ ent.outputmodelnumber < 0
           THEN /\ entnum' = entnum + 1
                /\ UNCHANGED <<entities, pc, stats, all_detail, log, fatal>>
           ELSE LET cleared == [entities EXCEPT ![entnum].brushes = <<>>]
                IN  \E r \in LoadOutcomes(cleared, entnum, HULL_COLLISION, qbsp_options,
                                          game, log) :
                        /\ entities' = [cleared EXCEPT ![entnum].brushes = r.d.brushes,
                                                       ![entnum].bounds = r.d.bounds]
                        /\ stats' = r.d.stats
                        /\ all_detail' = r.fl
                        /\ log' = r.d.log
                        /\ fatal' = r.d.fatal
                        /\ pc' = "bspx_loaded"
                        /\ UNCHANGED entnum
    /\ UNCHANGED <<qbsp_options, face_vars, brush_vars, game, hullnum, bevel_vars, export_vars,
                   settings_vars, percent_vars, area_vars, rotate_vars>>

\* BSPX_CreateBrushList, the rest of the loop body: an entity without brushes
\* is passed over, the brushes of any other are exported and freed
BSPXAddModel ==
    /\ pc = "bspx_loaded"
    /\ fatal = "none"
    /\ entities' = FreeBrushes(entities, entnum)
    /\ entnum' = entnum + 1
    /\ pc' = "bspx"
    /\ stats' = <<>>
    /\ all_detail' = <<>>
    /\ UNCHANGED <<common_vars, face_vars, brush_vars, game, hullnum, bevel_vars, export_vars,
                   settings_vars, percent_vars, area_vars, rotate_vars>>

\* BSPX_CreateBrushList returns
BSPXDone ==
    /\ pc = "bspx"
    /\ fatal = "none"
    /\ entnum > Len(entities)
    /\ pc' = "done"
    /\ UNCHANGED <<common_vars, face_vars, brush_vars, game, entities, hullnum, entnum,
                   stats, all_detail, bevel_vars, export_vars, settings_vars, percent_vars,
                   area_vars, rotate_vars>>

Next ==
    \/ ProcessEntityLoad
    \/ ProcessEntityBuild
    \/ CreateSingleHullDone
    \/ BSPXLoad
    \/ BSPXAddModel
    \/ BSPXDone

Spec == Init /\ [][Next]_vars

SpecAggregator == InitAggregator /\ [][Next]_vars

SpecNodetail == InitNodetail /\ [][Next]_vars

(***************************************************************************)
(* Brush Bevel/Export: AddBrushBevels applied to one brush                 *)
(***************************************************************************)
InitBevels ==
    /\ qbsp_options = [wrbrushes |-> TRUE]
    /\ log = <<>>
    /\ fatal = "none"
    /\ FaceIdle
    /\ BrushIdle
    /\ PipeIdle
    /\ ExportIdle
    /\ SettingsIdle
    /\ PercentIdle
    /\ AreaIdle
    /\ RotateIdle
    /\ bb_brush \in BevelBrushes
    /\ bb_planes = <<>>

AddBrushBevelsCall ==
    /\ bb_planes = <<>>
    /\ bb_planes' = AddBrushBevels(bb_brush)
    /\ UNCHANGED <<common_vars, face_vars, brush_vars, pipe_vars, bb_brush, export_vars,
                   settings_vars, percent_vars, area_vars, rotate_vars>>

NextBevels == AddBrushBevelsCall

SpecBevels == InitBevels /\ [][NextBevels]_vars


(***************************************************************************)
(* Brush Bevel/Export: ExportBrushList (the leaf-brush numbering of        *)
(* ExportBrushList_r walks the node tree and is outside this model)        *)
(***************************************************************************)
\* ExportMapTexinfo (body not in src/): the exported number of a texinfo
ExportMapTexinfo(texinfo) == [exported |-> texinfo]

\* a brush record that always starts at side 0
NewBrush_FirstSideZero(sides, contents) ==
    [firstside |-> 0, numsides |-> 0, contents |-> contents]

\* dbrush_t{dbrushsides.size(), 0, b.contents.native}
NewBrush(sides, contents) ==
    [firstside |-> Len(sides), numsides |-> 0, contents |-> contents]

RECURSIVE ExportBrushLoop(_, _, _, _)
\* for (auto &b : entity->brushes), from brush n on
ExportBrushLoop(brushes, n, records, sides) ==
    IF n > Len(brushes) THEN [dbrushes |-> records, dbrushsides |-> sides]
    ELSE LET b == brushes[n]
             brush == NewBrush(sides, b.contents)
             bevels == AddBrushBevels(b)
             added == [k \in 1..Len(bevels) |->
                          [planenum |-> bevels[k].plane,
                           texinfo |-> ExportMapTexinfo(b.faces[bevels[k].face].texinfo)]]
         IN  ExportBrushLoop(brushes, n + 1,
                             Append(records, [brush EXCEPT !.numsides = Len(bevels)]),
                             sides \o added)

\* the brushes of the entities given to ExportBrushList
ExportSamples ==
    LET unit == [k \in 1..3 |-> 1]
        zero == [k \in 1..3 |-> 0]
        solids == {BevelBrush([i \in 1..6 |-> BoxFace(<<5, 0, 3, 4, 1, 2>>[i], zero, unit)]),
                   Tetrahedron(unit), Octahedron(1)}
    IN  {[faces |-> b.faces, bounds |-> b.bounds, contents |-> c] : b \in solids, c \in {1, 32}}

\* entity->brushes of one call
ExportEntities == UNION {[1..n -> ExportSamples] : n \in 0..2}

InitExport ==
    /\ qbsp_options = [wrbrushes |-> TRUE]
    /\ log = <<>>
    /\ fatal = "none"
    /\ FaceIdle
    /\ BrushIdle
    /\ PipeIdle
    /\ BevelIdle
    /\ SettingsIdle
    /\ PercentIdle
    /\ AreaIdle
    /\ RotateIdle
    /\ dbrushes = <<>>
    /\ dbrushsides = <<>>
    /\ brush_offset = 0
    /\ exported = <<>>

ExportBrushListCall ==
    \E brushes \in ExportEntities :
        /\ Len(exported) + Len(brushes) <= MaxExported
        /\ LET r == ExportBrushLoop(brushes, 1, dbrushes, dbrushsides)
           IN  /\ dbrushes' = r.dbrushes
               /\ dbrushsides' = r.dbrushsides
        /\ brush_offset' = brush_offset + Len(brushes)
        /\ exported' = exported \o brushes
        /\ UNCHANGED <<common_vars, face_vars, brush_vars, pipe_vars, bevel_vars, settings_vars,
                   percent_vars, area_vars, rotate_vars>>

NextExport == ExportBrushListCall

SpecExport == InitExport /\ [][NextExport]_vars


(***************************************************************************)
(* Settings (common/settings.hh, common/settings.cc): lockable settings    *)
(* and dict::parse.  A token is the sequence of its characters; the        *)
(* parser is the sequence of the tokens not consumed yet, so PARSE_PEEK    *)
(* reads its head and parse_token() takes its head off.                    *)
(***************************************************************************)
\* enum class source { DEFAULT = 0, MAP = 1, COMMANDLINE = 2 }
SourceRank(source) ==
    CASE source = "default" -> 0 [] source = "map" -> 1 [] source = "commandline" -> 2

\* a changeSource that accepts every source
changeSource_Always(setting, newSource) == TRUE

\* lockable_base::changeSource: whether the new source is taken
changeSource(setting, newSource) == SourceRank(newSource) >= SourceRank(setting.source)

\* lockable_value::setValueInternal
setValueInternal(setting, value, newSource) ==
    IF changeSource(setting, newSource) THEN [value |-> value, source |-> newSource]
    ELSE setting

\* setValueLocked / setValue, as parse calls them
setValueFromParse(setting, value, locked) ==
    setValueInternal(setting, value, IF locked THEN "commandline" ELSE "map")

IsDigit(c) == c \in {"0", "1", "2"}

RECURSIVE DecimalValue(_, _)
\* the value of the first n characters of digits
DecimalValue(digits, n) ==
    IF n = 0 THEN 0
    ELSE 10 * DecimalValue(digits, n - 1)
            + (CASE digits[n] = "0" -> 0 [] digits[n] = "1" -> 1 [] digits[n] = "2" -> 2)

\* std::stod / std::stoi on a token of '-' and digits and letters: the longest
\* prefix that is a number is converted, what follows it is ignored, and the
\* conversion throws when there is no such prefix
Stod(token) ==
    LET neg == token # <<>> /\ token[1] = "-"
        body == IF neg THEN Tail(token) ELSE token
        n == Cardinality({k \in 1..Len(body) : \A j \in 1..k : IsDigit(body[j])})
    IN  [ok |-> n > 0,
         value |-> IF neg THEN -DecimalValue(body, n) ELSE DecimalValue(body, n)]

\* parseInternal taking any token that is no option for the value
parseInternal_Greedy(tokens, setting, locked, truthValue) ==
    IF tokens # <<>> /\ Head(tokens)[1] # "-"
    THEN {[ok |-> TRUE, undefined |-> FALSE, parser |-> Tail(tokens),
           setting |-> setValueFromParse(setting, Head(tokens) = <<"1">>, locked)]}
    ELSE {[ok |-> TRUE, undefined |-> FALSE, parser |-> tokens,
           setting |-> setValueFromParse(setting, truthValue, locked)]}

\* lockable_bool::parseInternal (lockable_bool::parse passes truthValue = true)
parseInternal(tokens, setting, locked, truthValue) ==
    IF tokens # <<>> /\ Head(tokens) \in {<<"1">>, <<"0">>, <<"-", "1">>}
    THEN LET intval == Stod(Head(tokens)).value
             f == IF intval # 0 /\ intval # -1 THEN truthValue ELSE ~truthValue
         IN  {[ok |-> TRUE, undefined |-> FALSE, parser |-> Tail(tokens),
               setting |-> setValueFromParse(setting, f, locked)]}
    ELSE {[ok |-> TRUE, undefined |-> FALSE, parser |-> tokens,
           setting |-> setValueFromParse(setting, truthValue, locked)]}

\* lockable_scalar::parse (the default minimum and maximum are infinite)
scalar_parse(tokens, setting, locked) ==
    IF tokens = <<>>
    THEN {[ok |-> FALSE, undefined |-> FALSE, parser |-> tokens, setting |-> setting]}
    ELSE IF ~Stod(Head(tokens)).ok
    THEN {[ok |-> FALSE, undefined |-> FALSE, parser |-> Tail(tokens), setting |-> setting]}
    ELSE {[ok |-> TRUE, undefined |-> FALSE, parser |-> Tail(tokens),
           setting |-> setValueFromParse(setting, Stod(Head(tokens)).value, locked)]}

RECURSIVE vec3_parse(_, _, _, _)
\* lockable_vec3::parse: vec holds the components converted so far
vec3_parse(tokens, setting, locked, vec) ==
    IF Len(vec) = 3
    THEN {[ok |-> TRUE, undefined |-> FALSE, parser |-> tokens,
           setting |-> setValueFromParse(setting, vec, locked)]}
    ELSE IF tokens = <<>>
    THEN {[ok |-> FALSE, undefined |-> FALSE, parser |-> tokens, setting |-> setting]}
    ELSE IF ~Stod(Head(tokens)).ok
    THEN {[ok |-> FALSE, undefined |-> FALSE, parser |-> Tail(tokens), setting |-> setting]}
    ELSE vec3_parse(Tail(tokens), setting, locked, Append(vec, Stod(Head(tokens)).value))

RECURSIVE StringSpan(_, _)
\* the while (true) loop of lockable_string::parse on an unquoted token
StringSpan(tokens, value) ==
    IF tokens = <<>> \/ Head(tokens)[1] = "-" THEN [value |-> value, parser |-> tokens]
    ELSE StringSpan(Tail(tokens),
                    (IF value = <<>> THEN <<>> ELSE value \o <<" ">>) \o Head(tokens))

\* lockable_string::parse for unquoted tokens.  value.back() and
\* value.front() are called on the joined value whatever its length: on an
\* empty value this is undefined, the call either reads a byte that is no
\* space and goes on, or does not return.  No token holds a space, so the
\* two trimming loops leave a non-empty value as it is.
string_parse(tokens, setting, locked) ==
    IF tokens = <<>>
    THEN {[ok |-> FALSE, undefined |-> FALSE, parser |-> tokens, setting |-> setting]}
    ELSE LET span == StringSpan(tokens, <<>>)
             done == [ok |-> TRUE, undefined |-> FALSE, parser |-> span.parser,
                      setting |-> setValueFromParse(setting, span.value, locked)]
         IN  IF span.value = <<>> THEN {done, [done EXCEPT !.undefined = TRUE]} ELSE {done}

\* the settings of the dictionary: the class of the setting of each name
SettingClass ==
    (<<"l">> :> "lockable_bool") @@ (<<"s">> :> "lockable_scalar")
        @@ (<<"o">> :> "lockable_vec3") @@ (<<"n">> :> "lockable_string")

RECURSIVE findSetting(_)
\* dict::findSetting: the name without leading underscores, <<>> for nullptr
findSetting(name) ==
    IF name # <<>> /\ name[1] = "_" THEN findSetting(Tail(name))
    ELSE IF name \in DOMAIN SettingClass THEN name ELSE <<>>

\* setting->parse(parser, locked): the outcomes of the parse of one option
ParseSetting(name, tokens, setting, locked) ==
    CASE SettingClass[name] = "lockable_bool" -> parseInternal(tokens, setting, locked, TRUE)
      [] SettingClass[name] = "lockable_scalar" -> scalar_parse(tokens, setting, locked)
      [] SettingClass[name] = "lockable_vec3" -> vec3_parse(tokens, setting, locked, <<>>)
      [] SettingClass[name] = "lockable_string" -> string_parse(tokens, setting, locked)

RECURSIVE StripHyphens(_)
\* while (token.front() == '-') token.erase(token.begin())
StripHyphens(token) ==
    IF token # <<>> /\ token[1] = "-" THEN StripHyphens(Tail(token)) ELSE token

\* the tokens of the command lines
Tokens ==
    {<<"-", "l">>, <<"-", "s">>, <<"-", "o">>, <<"-", "n">>,
     <<"1">>, <<"0">>, <<"-", "1">>, <<"1", "x">>, <<"x">>}

CommandLines == UNION {[1..n -> Tokens] : n \in 0..MaxTokens}

\* the settings as constructed, and the same settings after the map set them
InitialSettings ==
    {(<<"l">> :> [value |-> FALSE, source |-> "default"])
        @@ (<<"s">> :> [value |-> 1, source |-> "default"])
        @@ (<<"o">> :> [value |-> <<0, 0, 0>>, source |-> "default"])
        @@ (<<"n">> :> [value |-> <<>>, source |-> "default"]),
     (<<"l">> :> [value |-> TRUE, source |-> "map"])
        @@ (<<"s">> :> [value |-> 2, source |-> "map"])
        @@ (<<"o">> :> [value |-> <<2, 2, 2>>, source |-> "map"])
        @@ (<<"n">> :> [value |-> <<"x", "x">>, source |-> "map"])}

InitParse ==
    /\ qbsp_options = [wrbrushes |-> TRUE]
    /\ log = <<>>
    /\ fatal = "none"
    /\ FaceIdle
    /\ BrushIdle
    /\ PipeIdle
    /\ BevelIdle
    /\ ExportIdle
    /\ PercentIdle
    /\ AreaIdle
    /\ RotateIdle
    /\ settings \in InitialSettings
    /\ parser \in CommandLines
    /\ parse_status = "options"
    /\ remainder = <<>>
    /\ last_set = <<>>

\* one turn of the option loop of dict::parse on a token that begins with '-'
ParseOption ==
    /\ parse_status = "options"
    /\ parser # <<>> /\ Head(parser)[1] = "-"
    /\ LET name == StripHyphens(Head(parser))
       IN  IF name = <<>> \/ findSetting(name) = <<>>
           THEN /\ parser' = Tail(parser)
                /\ parse_status' = "parse_exception"
                /\ UNCHANGED settings
           ELSE \E r \in ParseSetting(findSetting(name), Tail(parser),
                                      settings[findSetting(name)], TRUE) :
                    /\ parser' = r.parser
                    /\ parse_status' = IF r.undefined THEN "undefined"
                                       ELSE IF r.ok THEN "options" ELSE "parse_exception"
                    /\ settings' = IF r.undefined THEN settings
                                   ELSE [settings EXCEPT ![findSetting(name)] = r.setting]
    /\ UNCHANGED <<common_vars, face_vars, brush_vars, pipe_vars, bevel_vars, export_vars,
                   remainder, last_set, percent_vars, area_vars, rotate_vars>>

\* the end of the option loop of dict::parse and the return of the remainder
ReturnRemainder ==
    /\ parse_status = "options"
    /\ IF parser = <<>> THEN TRUE ELSE Head(parser)[1] # "-"
    /\ remainder' = parser
    /\ parser' = <<>>
    /\ parse_status' = "returned"
    /\ UNCHANGED <<common_vars, face_vars, brush_vars, pipe_vars, bevel_vars, export_vars,
                   settings, last_set, percent_vars, area_vars, rotate_vars>>

NextParse == ParseOption \/ ReturnRemainder

SpecParse == InitParse /\ [][NextParse]_vars


(***************************************************************************)
(* Settings: setValue (from the map) and setValueLocked (from the command  *)
(* line) called in any order on the boolean and the scalar setting         *)
(***************************************************************************)
\* the values a call can give to the setting of each name
SetValues == (<<"l">> :> BOOLEAN) @@ (<<"s">> :> 0..2)

InitSource ==
    /\ qbsp_options = [wrbrushes |-> TRUE]
    /\ log = <<>>
    /\ fatal = "none"
    /\ FaceIdle
    /\ BrushIdle
    /\ PipeIdle
    /\ BevelIdle
    /\ ExportIdle
    /\ PercentIdle
    /\ AreaIdle
    /\ RotateIdle
    /\ settings \in {st \in InitialSettings : \A n \in DOMAIN st : st[n].source = "default"}
    /\ parser = <<>>
    /\ parse_status = "returned"
    /\ remainder = <<>>
    /\ last_set = <<>>

\* a call that sets one setting from the given source
SetFrom(newSource) ==
    \E name \in DOMAIN SetValues : \E value \in SetValues[name] :
        /\ settings' = [settings EXCEPT ![name] = setValueInternal(@, value, newSource)]
        /\ last_set' = [name |-> name, value |-> value, source |-> newSource]
        /\ UNCHANGED <<common_vars, face_vars, brush_vars, pipe_vars, bevel_vars, export_vars,
                       parser, parse_status, remainder, percent_vars, area_vars, rotate_vars>>

\* lockable_value::setValue
SetValueCall == SetFrom("map")

\* lockable_value::setValueLocked
SetValueLockedCall == SetFrom("commandline")

NextSource == SetValueCall \/ SetValueLockedCall

SpecSource == InitSource /\ [][NextSource]_vars

(***************************************************************************)
(* logging::percent called from several threads.  Each thread is idle, or  *)
(* about to make one compare_exchange_weak attempt ("acquire"), or past    *)
(* the exchange and before the updates of the timing state ("inside"), or  *)
(* before the store `locked = false` ("unlock").  What percent prints is   *)
(* not part of the state.                                                  *)
(***************************************************************************)
Threads == 1..NumThreads

\* std::atomic_bool::compare_exchange_weak(expected, desired): the possible
\* results.  When the object holds `expected` it is replaced by `desired`,
\* or the exchange fails spuriously; otherwise the exchange fails and the
\* value of the object is written to `expected`.
compare_exchange_weak(obj, expected, desired) ==
    IF obj = expected
    THEN {[ok |-> TRUE, obj |-> desired, expected |-> expected],
          [ok |-> FALSE, obj |-> obj, expected |-> expected]}
    ELSE {[ok |-> FALSE, obj |-> obj, expected |-> obj]}

\* the threads past the exchange that have not yet stored locked = false
Holders == {t \in Threads : percent_pc[t] \in {"inside", "unlock"}}

\* the percentage printed for count of max
Pct(count, max) == (count * 100) \div max

InitPercent ==
    /\ flag_locked = FALSE
    /\ percent_pc = [t \in Threads |-> "idle"]
    /\ percent_call = [t \in Threads |-> [count |-> 0, max |-> MaxCount, expected |-> FALSE]]
    /\ is_timing = FALSE
    /\ last_count = -1
    /\ FaceIdle
    /\ BrushIdle
    /\ PipeIdle
    /\ BevelIdle
    /\ ExportIdle
    /\ SettingsIdle
    /\ AreaIdle
    /\ RotateIdle
    /\ qbsp_options = [wrbrushes |-> TRUE]
    /\ log = <<>>
    /\ fatal = "none"

\* a thread enters percent(count, MaxCount): bool expected = false
PercentCall ==
    \E t \in Threads, count \in 0..MaxCount :
        /\ percent_pc[t] = "idle"
        /\ percent_pc' = [percent_pc EXCEPT ![t] = "acquire"]
        /\ percent_call' = [percent_call EXCEPT
                               ![t] = [count |-> count, max |-> MaxCount, expected |-> FALSE]]
        /\ UNCHANGED <<common_vars, face_vars, brush_vars, pipe_vars, bevel_vars, export_vars,
                       settings_vars, area_vars, flag_locked, is_timing, last_count, rotate_vars>>

\* one locked.compare_exchange_weak(expected, true): the final call repeats
\* it until it succeeds, every other call returns when it fails
PercentAcquire ==
    \E t \in Threads :
        /\ percent_pc[t] = "acquire"
        /\ \E r \in compare_exchange_weak(flag_locked, percent_call[t].expected, TRUE) :
               /\ flag_locked' = r.obj
               /\ percent_call' = [percent_call EXCEPT ![t].expected = r.expected]
               /\ percent_pc' = [percent_pc EXCEPT
                                    ![t] = IF r.ok THEN "inside"
                                           ELSE IF percent_call[t].count = percent_call[t].max
                                                THEN "acquire"
                                                ELSE "idle"]
        /\ UNCHANGED <<common_vars, face_vars, brush_vars, pipe_vars, bevel_vars, export_vars,
                       settings_vars, area_vars, is_timing, last_count, rotate_vars>>

\* the updates of is_timing and last_count between the exchange and the
\* store.  Two threads doing them at the same time is a data race on plain
\* variables: any values may result.
PercentUpdate ==
    \E t \in Threads :
        /\ percent_pc[t] = "inside"
        /\ IF Holders # {t}
           THEN /\ is_timing' \in BOOLEAN
                /\ last_count' \in {-1} \cup {Pct(c, MaxCount) : c \in 0..MaxCount}
           ELSE IF percent_call[t].count = percent_call[t].max
                THEN /\ is_timing' = FALSE
                     /\ last_count' = -1
                ELSE /\ is_timing' = TRUE
                     /\ last_count' = Pct(percent_call[t].count, percent_call[t].max)
        /\ percent_pc' = [percent_pc EXCEPT ![t] = "unlock"]
        /\ UNCHANGED <<common_vars, face_vars, brush_vars, pipe_vars, bevel_vars, export_vars,
                       settings_vars, area_vars, flag_locked, percent_call, rotate_vars>>

\* locked = false
PercentUnlock ==
    \E t \in Threads :
        /\ percent_pc[t] = "unlock"
        /\ flag_locked' = FALSE
        /\ percent_pc' = [percent_pc EXCEPT ![t] = "idle"]
        /\ UNCHANGED <<common_vars, face_vars, brush_vars, pipe_vars, bevel_vars, export_vars,
                       settings_vars, area_vars, percent_call, is_timing, last_count, rotate_vars>>

NextPercent == PercentCall \/ PercentAcquire \/ PercentUpdate \/ PercentUnlock

SpecPercent == InitPercent /\ [][NextPercent]_vars

(***************************************************************************)
(* EmitAreaPortals.  An entity is [areaportalnum, portalareas]; records    *)
(* are value-initialised by emplace_back().                                *)
(***************************************************************************)
ZeroPortal == [portalnum |-> 0, otherarea |-> 0]

\* the record emplaced for entity e while area i is written
PortalRecord(e, i) ==
    IF e.portalareas[1] = i
    THEN [portalnum |-> e.areaportalnum, otherarea |-> e.portalareas[2]]
    ELSE IF e.portalareas[2] = i
         THEN [portalnum |-> e.areaportalnum, otherarea |-> e.portalareas[1]]
         ELSE ZeroPortal

\* the inner loop over map.entities for area i: the records it appends
RECURSIVE EntityLoop(_, _)
EntityLoop(ents, i) ==
    IF ents = <<>> THEN <<>>
    ELSE IF Head(ents).areaportalnum = 0
         THEN EntityLoop(Tail(ents), i)
         ELSE <<PortalRecord(Head(ents), i)>> \o EntityLoop(Tail(ents), i)

\* the loop over the areas i..areas
RECURSIVE AreaLoop(_, _, _, _, _)
AreaLoop(ents, areas, i, areaList, portals) ==
    IF i > areas THEN [dareas |-> areaList, dareaportals |-> portals]
    ELSE LET added == EntityLoop(ents, i)
             area == [firstareaportal |-> Len(portals),
                      numareaportals |-> Len(portals) + Len(added) - Len(portals)]
         IN  AreaLoop(ents, areas, i + 1, Append(areaList, area), portals \o added)

EmitAreaPortals(ents, areas) ==
    AreaLoop(ents, areas, 1,
             <<[firstareaportal |-> 0, numareaportals |-> 0]>>, <<ZeroPortal>>)

\* the entities FloodAreas leaves behind with `areas` areas: no areaportal,
\* or an areaportal touching no, one or two different areas, the first
\* slot of portalareas filled first
PortalAreaPairs(areas) ==
    {<<a, b>> : a \in 0..areas, b \in 0..areas} \ 
        {p \in {<<a, b>> : a \in 0..areas, b \in 0..areas} :
            (p[1] = 0 /\ p[2] # 0) \/ (p[1] # 0 /\ p[1] = p[2])}

EntityKinds(areas) ==
    {[portal |-> FALSE, portalareas |-> <<0, 0>>]}
        \cup {[portal |-> TRUE, portalareas |-> p] : p \in PortalAreaPairs(areas)}

\* areaportalnum counts the areaportal entities from 1 in map order
RECURSIVE NumberPortals(_, _)
NumberPortals(kinds, next) ==
    IF kinds = <<>> THEN <<>>
    ELSE <<[areaportalnum |-> IF Head(kinds).portal THEN next ELSE 0,
            portalareas |-> Head(kinds).portalareas]>>
         \o NumberPortals(Tail(kinds), IF Head(kinds).portal THEN next + 1 ELSE next)

AreaMaps(areas) ==
    {NumberPortals(k, 1) :
        k \in UNION {[1..n -> EntityKinds(areas)] : n \in 0..MaxPortalEnts}}

InitAreas ==
    /\ c_areas \in 0..MaxAreas
    /\ map_entities \in AreaMaps(c_areas)
    /\ dareas = <<>>
    /\ dareaportals = <<>>
    /\ FaceIdle
    /\ BrushIdle
    /\ PipeIdle
    /\ BevelIdle
    /\ ExportIdle
    /\ SettingsIdle
    /\ PercentIdle
    /\ RotateIdle
    /\ qbsp_options = [wrbrushes |-> TRUE]
    /\ log = <<>>
    /\ fatal = "none"

EmitAreaPortalsCall ==
    /\ dareas = <<>>
    /\ LET r == EmitAreaPortals(map_entities, c_areas)
       IN  /\ dareas' = r.dareas
           /\ dareaportals' = r.dareaportals
    /\ UNCHANGED <<common_vars, face_vars, brush_vars, pipe_vars, bevel_vars, export_vars,
                   settings_vars, percent_vars, c_areas, map_entities, rotate_vars>>

NextAreas == EmitAreaPortalsCall

SpecAreas == InitAreas /\ [][NextAreas]_vars

(***************************************************************************)
(* FixRotateOrigin, called by the entity loop of UpdateEntLump.  An entity *)
(* is its epairs classname, target, targetname and origin; a key that is   *)
(* not set reads as the empty string.                                      *)
(***************************************************************************)
\* tolower on the one-character names used below
ToLower(str) == IF str = "T" THEN "t" ELSE IF str = "U" THEN "u" ELSE str

\* string_iequals: the two strings are equal when case is ignored
string_iequals(a, b) == ToLower(a) = ToLower(b)

\* entdict_t::get_vector: the three numbers of the value, zero when the key
\* is not set
get_vector(value) ==
    IF value = "8 0 0" THEN <<8, 0, 0>>
    ELSE IF value = "0 16 0" THEN <<0, 16, 0>>
    ELSE <<0, 0, 0>>

\* qv::to_string: the components separated by blanks
to_string(vec) ==
    IF vec = <<8, 0, 0>> THEN "8 0 0"
    ELSE IF vec = <<0, 16, 0>> THEN "0 16 0"
    ELSE "0 0 0"

\* the loop of FindTargetEntity from entity n on: the index of the entity
\* it returns, 0 for nullptr
RECURSIVE FindTargetEntityFrom(_, _, _)
FindTargetEntityFrom(ents, target, n) ==
    IF n > Len(ents) THEN 0
    ELSE IF ~string_iequals(target, ents[n].targetname) THEN n
    ELSE FindTargetEntityFrom(ents, target, n + 1)

FindTargetEntity(ents, target) == FindTargetEntityFrom(ents, target, 1)

\* FixRotateOrigin on entity n: the entity found, the entities afterwards
\* and the lines printed
FixRotateOrigin(ents, n) ==
    LET search == ents[n].target
        target == IF search # "" THEN FindTargetEntity(ents, search) ELSE 0
        offset == IF target # 0 THEN get_vector(ents[target].origin) ELSE <<0, 0, 0>>
    IN  [found |-> target,
         ents |-> [ents EXCEPT ![n].origin = to_string(offset)],
         printed |-> IF target # 0 THEN <<>>
                     ELSE <<"WARNING: No target for rotation entity">>,
         offset |-> offset]

RotateNames == {"", "t", "T", "u"}

RotateEntities ==
    [classname : {"rotate_object", "info_rotate"},
     target : RotateNames,
     targetname : RotateNames,
     origin : {"", "8 0 0", "0 16 0"}]

InitRotate ==
    /\ rotate_ents \in UNION {[1..n -> RotateEntities] : n \in 1..MaxRotateEnts}
    /\ rotate_next = 1
    /\ rotate_found = 0
    /\ FaceIdle
    /\ BrushIdle
    /\ PipeIdle
    /\ BevelIdle
    /\ ExportIdle
    /\ SettingsIdle
    /\ PercentIdle
    /\ AreaIdle
    /\ qbsp_options = [wrbrushes |-> TRUE]
    /\ log = <<>>
    /\ fatal = "none"

\* one turn of the entity loop of UpdateEntLump: FixRotateOrigin for an
\* entity whose classname begins with rotate_
UpdateEntLumpStep ==
    /\ rotate_next <= Len(rotate_ents)
    /\ rotate_next' = rotate_next + 1
    /\ IF rotate_ents[rotate_next].classname = "rotate_object"
       THEN LET r == FixRotateOrigin(rotate_ents, rotate_next)
            IN  /\ rotate_ents' = r.ents
                /\ rotate_found' = r.found
                /\ log' = log \o r.printed
       ELSE UNCHANGED <<rotate_ents, rotate_found, log>>
    /\ UNCHANGED <<qbsp_options, fatal, face_vars, brush_vars, pipe_vars, bevel_vars,
                   export_vars, settings_vars, percent_vars, area_vars>>

NextRotate == UpdateEntLumpStep

SpecRotate == InitRotate /\ [][NextRotate]_vars


(***************************************************************************)
(* Claims about the Face Validator                                         *)
(***************************************************************************)
EdgeLengthSq(w, i) == Dot(Sub(w[NextIndex(w, i)], w[i]), Sub(w[NextIndex(w, i)], w[i]))

\* v is on or behind the cutting plane of edge i, within epsilon
BehindEdge(w, i, v, facenormal, epsilonSq) ==
    LET c == Cross(facenormal, Sub(w[NextIndex(w, i)], w[i]))
        d == Dot(v, c) - Dot(w[i], c)
    IN  d <= 0 \/ d * d <= epsilonSq * Dot(c, c)

ValidWinding(w, facenormal, epsilonSq) ==
    /\ Len(w) >= 3
    /\ \A i \in 1..Len(w) : EdgeLengthSq(w, i) >= epsilonSq
    /\ \A i \in 1..Len(w) : \A j \in 1..Len(w) :
            j # i => BehindEdge(w, i, w[j], facenormal, epsilonSq)

\* C1: whenever CheckFace returns without the fatal abort, the side's winding
\* is empty or valid: at least 3 points, every edge (the wrap-around edge
\* included) at least epsilon long, every other vertex on or behind every
\* edge's cutting plane within epsilon.
C1_EmptyOrValid ==
    (cf_checked /\ fatal = "none") =>
        \/ cf_side.w = <<>>
        \/ ValidWinding(cf_side.w, get_plane(cf_side.planenum).normal,
                        qbsp_options.epsilonSq)

\* a winding that needed a healing step and was accepted
C1_Witness ==
    /\ cf_checked
    /\ fatal = "none"
    /\ \E k \in 1..Len(log) : log[k] = "healing degenerate edge"
    /\ Len(cf_side.w) >= 3
    /\ Len(cf_side.w) < Len(cf_source)


\* point k of the side's winding is farther than epsilon from the side's plane
FarFromPlane(k) ==
    LET dist == distance_to(get_plane(cf_side.planenum), cf_side.w[k])
    IN  dist * dist > qbsp_options.epsilonSq

\* the last message printed
LastLogged == IF log = <<>> THEN "" ELSE log[Len(log)]

\* the number of messages m in the log
Logged(m) == Cardinality({k \in 1..Len(log) : log[k] = m})

\* C11 (as stated): every non-empty winding left by CheckFace has all of its
\* points within epsilon of the supporting plane.
C11_PointsOnPlane ==
    (cf_checked /\ fatal = "none") =>
        \A k \in 1..Len(cf_side.w) : ~FarFromPlane(k)

\* C11 (amended): CheckFace reports every point farther than epsilon from the
\* supporting plane with a "point off plane" warning and does not reject the
\* winding for it: a non-empty winding it leaves has been warned about at
\* least once for each such point it still holds.
C11_OffPlaneOnlyWarned ==
    (cf_checked /\ fatal = "none") =>
        Cardinality({k \in 1..Len(cf_side.w) : FarFromPlane(k)}) <= Logged("off plane")

\* an accepted winding that holds a point off the plane
C11_Witness ==
    /\ cf_checked /\ fatal = "none"
    /\ \E k \in 1..Len(cf_side.w) : FarFromPlane(k)
    /\ Logged("off plane") >= 1

\* C12 (as stated): a winding of at least 3 points that holds a point with a
\* coordinate beyond the world extent always ends in the fatal abort.
C12_OutOfRangeAlwaysFatal ==
    (cf_checked /\ Len(cf_source) >= 3
        /\ \E k \in 1..Len(cf_source) :
                \E c \in 1..3 : Abs(cf_source[k][c]) > qbsp_options.worldextent)
    => fatal = "coordinate out of range"

\* C13: CheckFace stops on every winding; every healing step takes exactly one
\* point out, so a winding of n >= 3 points is healed at most n - 2 times and
\* an accepted winding has n minus the number of healing steps points and a
\* winding is down to 2 points after exactly n - 2 healing steps; a triangle
\* that is healed is cleared with the "too few points" warning.
C13_HealingBounded ==
    (cf_checked /\ ~cf_rerun /\ fatal = "none") =>
        /\ Logged("healing degenerate edge") <= (IF Len(cf_source) >= 3 THEN Len(cf_source) - 2 ELSE 0)
        /\ cf_side.w # <<>> =>
                Len(cf_side.w) = Len(cf_source) - Logged("healing degenerate edge")
        /\ (Len(cf_source) >= 3 /\ LastLogged = "too few points") =>
                Logged("healing degenerate edge") = Len(cf_source) - 2
        /\ (Len(cf_source) = 3 /\ Logged("healing degenerate edge") >= 1) =>
                /\ cf_side.w = <<>>
                /\ Logged("healing degenerate edge") = 1
                /\ LastLogged = "too few points"

\* a winding of 4 points that was healed twice, down to 2 points, and cleared
C13_Witness ==
    /\ cf_checked /\ ~cf_rerun /\ fatal = "none"
    /\ Len(cf_source) = 4
    /\ Logged("healing degenerate edge") = 2
    /\ cf_side.w = <<>>
    /\ LastLogged = "too few points"

\* C14: a second CheckFace on the winding the first one left, with the same
\* plane and settings, changes nothing: no point is removed, an accepted
\* winding is not cleared, no abort is raised.
C14_SecondRunIsIdentity ==
    [][(cf_checked /\ fatal = "none") => (cf_side' = cf_side /\ fatal' = fatal)]_vars

\* CheckFace has run again on a winding that the first run healed and accepted
C14_Witness ==
    /\ cf_rerun /\ fatal = "none"
    /\ Len(cf_side.w) >= 3
    /\ Len(cf_side.w) < Len(cf_source)


\* the winding w without its k-th point
WithoutPoint(w, k) == [j \in 1..(Len(w) - 1) |-> IF j < k THEN w[j] ELSE w[j + 1]]

\* the edges of the given winding that are shorter than epsilon
DegenerateEdges ==
    {i \in 1..Len(cf_source) :
        LengthBelowEpsilon(cf_source[i], cf_source[NextIndex(cf_source, i)], qbsp_options)}

\* CheckFace healed the given winding exactly once and accepted the result
HealedOnce ==
    /\ cf_checked /\ ~cf_rerun /\ fatal = "none"
    /\ Logged("healing degenerate edge") = 1
    /\ cf_side.w # <<>>

\* C25 (as stated): healing the edge point[i] -> point[i+1] removes point[i+1],
\* the second endpoint, and keeps every other point in order.
C25_RemovesSecondEndpoint ==
    HealedOnce =>
        cf_side.w = WithoutPoint(cf_source, NextIndex(cf_source, MinOf(DegenerateEdges)))

\* C25 (amended): healing the edge point[i] -> point[i+1] removes point[i],
\* the first endpoint, and keeps every other point, point[i+1] included, in
\* its original relative order; the winding shrinks by exactly one point.
C25_RemovesFirstEndpoint ==
    HealedOnce =>
        /\ cf_side.w = WithoutPoint(cf_source, MinOf(DegenerateEdges))
        /\ Len(cf_side.w) = Len(cf_source) - 1

\* a healed and accepted winding whose degenerate edge had two distinct endpoints
C25_Witness ==
    /\ HealedOnce
    /\ cf_source[MinOf(DegenerateEdges)] #
            cf_source[NextIndex(cf_source, MinOf(DegenerateEdges))]
    /\ cf_side.w # WithoutPoint(cf_source, NextIndex(cf_source, MinOf(DegenerateEdges)))


(***************************************************************************)
(* Claims about the Contents Classifier and the Brush Loader               *)
(***************************************************************************)
NonEmptyFaces == {i \in 1..Len(mapbrush.faces) : mapbrush.faces[i].contents # "empty"}

MixedWarnings == Cardinality({k \in 1..Len(log) : log[k] = "mixed face contents"})

\* the faces whose contents differs from that of the first non-empty face
MismatchFaces ==
    {i \in NonEmptyFaces :
        mapbrush.faces[i].contents # mapbrush.faces[MinOf(NonEmptyFaces)].contents}

\* C2: Brush_GetContents returns the contents of the first face, in source
\* order, whose contents is non-empty; later faces never change it; a brush
\* with one or more later faces of another type gets exactly one "mixed face
\* contents" warning and a brush whose non-empty faces agree gets none.
C2_FirstNonEmptyWins ==
    lb_contents # <<>> =>
        /\ NonEmptyFaces = {} => lb_contents[1] = create_empty_contents
        /\ NonEmptyFaces # {} =>
            /\ lb_contents[1] = Contents(mapbrush.faces[MinOf(NonEmptyFaces)].contents)
            /\ MixedWarnings = (IF MismatchFaces = {} THEN 0 ELSE 1)

\* an empty first face, then a non-empty face and two later faces of other types
C2_Witness ==
    /\ lb_contents # <<>>
    /\ Len(mapbrush.faces) >= 3
    /\ Cardinality(MismatchFaces) >= 2
    /\ MixedWarnings = 1

NonBevelFaces == SelectSeq(mapbrush.faces, LAMBDA f : ~f.bevel)

\* C8: LoadBrush produces one side per source face not flagged bevel, in
\* source order and for every hull number, each keeping the face's plane
\* index; the texinfo is 0 when the hull number is > 0 and the face's texinfo
\* otherwise; sides with emptied windings stay in the list.
C8_OneSidePerFace ==
    lb_brush # <<>> =>
        /\ Len(lb_brush[1].sides) = Len(NonBevelFaces)
        /\ \A k \in 1..Len(NonBevelFaces) :
            /\ lb_brush[1].sides[k].planenum = NonBevelFaces[k].planenum
            /\ lb_brush[1].sides[k].texinfo =
                (IF lb_hullnum > 0 THEN 0 ELSE NonBevelFaces[k].texinfo)

\* a collision-hull brush with a skipped bevel face and an emptied winding
C8_Witness ==
    /\ lb_brush # <<>>
    /\ lb_hullnum > 0
    /\ Len(NonBevelFaces) < Len(mapbrush.faces)
    /\ \E k \in 1..Len(lb_brush[1].sides) :
        lb_brush[1].sides[k].w = <<>> /\ NonBevelFaces[k].texinfo # 0

\* C9: LoadBrush yields "no brush" when every face of the source brush is
\* filtered out (all faces flagged bevel, or no faces at all).
C9_NoBrushWhenAllFiltered ==
    (lb_stage = "loaded" /\ fatal = "none" /\ NonBevelFaces = <<>>) => lb_brush = <<>>

SidePoints(brush) ==
    UNION {{brush.sides[k].w[i] : i \in 1..Len(brush.sides[k].w)} : k \in 1..Len(brush.sides)}

\* the smallest box that holds the points of all windings of the brush
BoundsOfSides(brush) ==
    IF SidePoints(brush) = {} THEN EmptyBounds
    ELSE [valid |-> TRUE,
          mins |-> [k \in 1..3 |-> MinOf({p[k] : p \in SidePoints(brush)})],
          maxs |-> [k \in 1..3 |-> MaxOf({p[k] : p \in SidePoints(brush)})]]

\* C10 as stated: every brush's bounding box equals the union of the bounds
\* of its sides' current windings, also right after LoadBrush.
C10_BoundsAreUnion ==
    lb_brush # <<>> => lb_brush[1].bounds = BoundsOfSides(lb_brush[1])

\* C10 amended: the brush LoadBrush returns carries the source brush's
\* precomputed bounds, whatever the Face Validator did to the windings; the
\* bounding box equals the union of the windings' bounds once update_bounds ran.
C10_BoundsFromSourceUntilUpdated ==
    /\ (lb_stage = "loaded" /\ lb_brush # <<>>) => lb_brush[1].bounds = mapbrush.bounds
    /\ lb_stage = "updated" => lb_brush[1].bounds = BoundsOfSides(lb_brush[1])

\* update_bounds changed the box of a brush whose windings were cleared
C10_Witness ==
    /\ lb_stage = "updated"
    /\ lb_brush[1].bounds # mapbrush.bounds
    /\ \E k \in 1..Len(lb_brush[1].sides) : lb_brush[1].sides[k].w = <<>>

(***************************************************************************)
(* Claims about the Entity Brush Aggregator                                *)
(***************************************************************************)
\* Brush_LoadEntity has just returned for entities[entnum] and hull hullnum
Aggregated == pc \in {"loaded", "bspx_loaded"} /\ fatal \notin {"Q_assert", "coordinate out of range"}

\* the source brushes of that call, as <<source entity, source brush>>
SourceBrushes ==
    UNION {{<<Sources(entities, entnum)[k], entities[Sources(entities, entnum)[k]].mapbrushes[i]>> :
                i \in 1..Len(entities[Sources(entities, entnum)[k]].mapbrushes)} :
           k \in 1..Len(Sources(entities, entnum))}

\* the brushes of the destination's list that were loaded from source brush mb
LoadedFrom(mb) ==
    {entities[entnum].brushes[k] : k \in {j \in 1..Len(entities[entnum].brushes) :
                                            entities[entnum].brushes[j].mapbrush = mb}}

SourceContents(mb) == Brush_GetContents(mb, <<>>).contents

\* the source brush gets as far as the clip rule: its entity is not omitted,
\* and neither the early discards nor the illusionary exclusion drop it
ReachesClipRule(s, mb) ==
    /\ ~entities[s].omitbrushes
    /\ ~EarlyDiscard(SourceContents(mb), all_detail[s], qbsp_options)
    /\ ~IllusionaryExclusion(all_detail[s], hullnum)

\* bounds b lie inside bounds a
Encloses(a, b) == unionWith(a, b) = a

\* later rules leave the contents alone: the world, or a game with contented bmodels
KeepsContents == entnum = 1 \/ game.allow_contented_bmodels

C4_HintExcludedOrEmpty ==
    Aggregated =>
        \A sb \in SourceBrushes :
            MapBrush_IsHint(sb[2]) =>
                /\ hullnum # 0 => LoadedFrom(sb[2]) = {}
                /\ hullnum = 0 => \A b \in LoadedFrom(sb[2]) : is_empty(b.contents)

\* C4 (amended): a source brush with a hint face contributes no brush in a
\* pass of hull >= 1; the brush it contributes in a hull 0 or HULL_COLLISION
\* pass has empty contents when the destination is the world or the game
\* allows contented bmodels, and otherwise has the solid contents forced on
\* brush-model entities (detail-fence solid in the passes of hull <= 0 when
\* _mirrorinside is set).
C4_HintByHullAndDestination ==
    Aggregated =>
        \A sb \in SourceBrushes :
            MapBrush_IsHint(sb[2]) =>
                /\ hullnum >= 1 => LoadedFrom(sb[2]) = {}
                /\ hullnum <= 0 =>
                    \A b \in LoadedFrom(sb[2]) :
                        IF KeepsContents THEN is_empty(b.contents)
                        ELSE /\ b.contents.native = "solid"
                             /\ b.contents.detail =
                                    (IF entities[sb[1]].mirrorinside = "true"
                                     THEN "fence" ELSE "none")

\* a hint brush of a brush-model entity was loaded in a hull 0 pass
C4_Witness ==
    /\ Aggregated /\ hullnum = 0 /\ entnum = 2
    /\ \E sb \in SourceBrushes : MapBrush_IsHint(sb[2]) /\ LoadedFrom(sb[2]) # {}

\* C5 (as stated): after aggregation in a pass of hull other than 0, every
\* brush of the entity's list has solid contents.
C5_NonZeroHullAllSolid ==
    Aggregated /\ hullnum # 0 =>
        \A k \in 1..Len(entities[entnum].brushes) : is_solid(entities[entnum].brushes[k].contents)

\* C5 (amended): after aggregation in a pass of hull >= 1, every brush of the
\* entity's list has solid contents: a source brush that no earlier rule
\* drops is loaded as solid when the contents it has at that step is solid or
\* sky, and is dropped otherwise.
C5_PositiveHullAllSolid ==
    Aggregated /\ hullnum >= 1 =>
        /\ \A k \in 1..Len(entities[entnum].brushes) :
                is_solid(entities[entnum].brushes[k].contents)
        /\ \A sb \in SourceBrushes :
                ReachesClipRule(sb[1], sb[2]) /\ ~MapBrush_IsHint(sb[2]) =>
                    (LoadedFrom(sb[2]) # {}) =
                        (\/ ~KeepsContents
                         \/ SourceContents(sb[2]).native \in {"solid", "sky", "clip"})

\* the world's list after a hull 1 pass holds a sky brush of a brush-donor
\* entity, now solid
C5_Witness ==
    /\ Aggregated /\ hullnum >= 1 /\ entnum = 1
    /\ \E sb \in SourceBrushes :
            /\ is_sky(SourceContents(sb[2]))
            /\ \E b \in LoadedFrom(sb[2]) : is_solid(b.contents)

\* the source brushes of the last call that belong to an entity of class c
SourceBrushesOf(c) == {sb \in SourceBrushes : entities[sb[1]].classname = c}

PromotedDetail(f) ==
    IF f.illusionary THEN "illusionary" ELSE IF f.fence THEN "fence"
    ELSE IF f.detail THEN "detail" ELSE "none"

C17_BmodelSolidOrFence ==
    Aggregated /\ ~game.allow_contented_bmodels =>
        /\ entnum # 1 =>
            \A k \in 1..Len(entities[entnum].brushes) :
                LET c == entities[entnum].brushes[k].contents
                IN  /\ c.native = "solid"
                    /\ c.detail = (IF entities[entnum].mirrorinside = "true"
                                   THEN "fence" ELSE "none")
        /\ (entnum = 1 /\ hullnum <= 0) =>
            \A sb \in SourceBrushes : \A b \in LoadedFrom(sb[2]) :
                ~MapBrush_IsHint(sb[2]) => b.contents.native = SourceContents(sb[2]).native

\* C17 (amended): a brush-model entity of a game without contented bmodels
\* holds only solid brushes; when its _mirrorinside key is non-zero they are
\* detail-fence in the passes of hull 0 and HULL_COLLISION and plain solid in
\* the passes of hull >= 1. The brushes that donor entities give to the world
\* keep their contents.
C17_BmodelSolidFenceByHull ==
    Aggregated /\ ~game.allow_contented_bmodels =>
        /\ entnum # 1 =>
            \A k \in 1..Len(entities[entnum].brushes) :
                LET c == entities[entnum].brushes[k].contents
                IN  /\ c.native = "solid"
                    /\ c.detail = (IF entities[entnum].mirrorinside = "true" /\ hullnum <= 0
                                   THEN "fence" ELSE "none")
        /\ (entnum = 1 /\ hullnum <= 0) =>
            \A sb \in SourceBrushes : \A b \in LoadedFrom(sb[2]) :
                ~MapBrush_IsHint(sb[2]) => b.contents.native = SourceContents(sb[2]).native

\* a brush-model entity with _mirrorinside has loaded a brush in a pass of
\* hull >= 1, in a game without contented bmodels
C17_Witness ==
    /\ Aggregated /\ ~game.allow_contented_bmodels /\ entnum = 2 /\ hullnum >= 1
    /\ entities[2].mirrorinside = "true"
    /\ entities[2].brushes # <<>>

\* the union of a set of bounds
RECURSIVE UnionOfBounds(_)
UnionOfBounds(S) ==
    IF S = {} THEN EmptyBounds
    ELSE LET x == CHOOSE x \in S : TRUE
         IN  unionWith(UnionOfBounds(S \ {x}), x)

\* the bounds of the brushes appended by the last call and, in hull 0, of the
\* clip brushes that reached the clip rule
PassBounds ==
    UnionOfBounds({entities[entnum].brushes[k].bounds : k \in 1..Len(entities[entnum].brushes)}
                  \cup {sb[2].bounds : sb \in {x \in SourceBrushes :
                            /\ hullnum = 0
                            /\ is_clip(SourceContents(x[2]))
                            /\ ReachesClipRule(x[1], x[2])}})

\* C18 (as stated): after the aggregator has run for an entity and a hull, the
\* entity's bounds are exactly the union of the bounds of the brushes appended
\* in that run and, in hull 0, of its clip brushes.
C18_BoundsOfThisPassOnly == Aggregated => entities[entnum].bounds = PassBounds

\* What holds in every run: after the aggregator has run in ProcessEntity,
\* which resets the bounds first, the entity's bounds are exactly that union;
\* BSPX_CreateBrushList does not reset the bounds, so after its run they
\* enclose that union and keep what earlier passes left.
BoundsResetInProcessEntity ==
    Aggregated =>
        /\ pc = "loaded" => entities[entnum].bounds = PassBounds
        /\ pc = "bspx_loaded" => Encloses(entities[entnum].bounds, PassBounds)

\* the world's bounds after a hull 0 pass that appended its own brush and
\* took only the bounds of a donor's clip brush
BoundsWithClipReached ==
    /\ pc = "loaded" /\ fatal = "none" /\ hullnum = 0 /\ entnum = 1
    /\ Len(entities[1].brushes) = 1
    /\ entities[1].bounds = PassBounds
    /\ entities[1].bounds # entities[1].brushes[1].bounds

(***************************************************************************)
(* Claims about the hull driver                                            *)
(***************************************************************************)
\* C6 (as stated): an entity with map brushes whose brush list is empty after
\* aggregation aborts the compilation whenever the hull is not 0, on every
\* path that runs the aggregator, and never when the hull is 0.
C6_EmptyListAborts ==
    Aggregated /\ entities[entnum].mapbrushes # <<>> /\ entities[entnum].brushes = <<>> =>
        (fatal = "Entity with no valid brushes") = (hullnum # 0)

\* C6 (amended): when ProcessEntity finds the brush list empty after
\* aggregation it aborts if the hull of the pass is not 0 (hull >= 1 or
\* HULL_COLLISION) and goes on if it is 0; BSPX_CreateBrushList, which
\* aggregates for HULL_COLLISION, passes over an entity whose list is empty
\* without any error.
C6_EmptyListAbortsInProcessEntity ==
    Aggregated /\ entities[entnum].brushes = <<>> =>
        /\ pc = "loaded" => (fatal = "Entity with no valid brushes") = (hullnum # 0)
        /\ pc = "bspx_loaded" => fatal = "none"

\* a brush entity with map brushes ended a pass of non-zero hull without brushes
C6_Witness ==
    /\ pc = "loaded" /\ hullnum # 0 /\ entnum = 2
    /\ entities[entnum].mapbrushes # <<>> /\ entities[entnum].brushes = <<>>
    /\ fatal = "Entity with no valid brushes"

\* the hull numbers CreateHulls makes passes for
PassHulls ==
    IF game.hulls = 0 THEN {HULL_COLLISION}
    ELSE IF qbsp_options.noclip THEN {0}
    ELSE 0..(game.hulls - 1)

\* brush lists between entities: all empty; while one entity is processed:
\* all others empty; passes only for the hulls of the game
ListsFreed ==
    /\ pc \in {"hulls", "bspx", "done"} =>
            \A e \in 1..Len(entities) : entities[e].brushes = <<>>
    /\ pc \in {"loaded", "bspx_loaded"} =>
            \A e \in 1..Len(entities) : e # entnum => entities[e].brushes = <<>>
    /\ pc \in {"hulls", "loaded"} => hullnum \in PassHulls

\* a step stays in the pass and at the entity or moves to the next entity, or
\* starts the pass of the next hull once the last entity is done; a list is
\* rebuilt from empty
InOrder ==
    /\ pc \in {"hulls", "loaded"} /\ pc' \in {"hulls", "loaded"} =>
            \/ hullnum' = hullnum /\ entnum' \in {entnum, entnum + 1}
            \/ hullnum' = hullnum + 1 /\ entnum > Len(entities) /\ entnum' = 1
    /\ pc \in {"bspx", "bspx_loaded"} /\ pc' \in {"bspx", "bspx_loaded"} =>
            entnum' \in {entnum, entnum + 1}
    /\ pc' \in {"loaded", "bspx_loaded"} /\ pc # pc' =>
            Len(entities'[entnum].brushes) <= Len(entities[entnum].mapbrushes)
                + (IF entnum = 1 THEN Len(entities[2].mapbrushes) ELSE 0)

\* C7: hull passes run one after another in ascending hull order (only
\* HULL_COLLISION without hulls, only hull 0 with noclip), entities are
\* processed in index order inside a pass, and no brush survives: a list is
\* rebuilt from its entity's sources only and every list is empty at the start
\* of every hull pass and of the brush-list export.
C7_PassesInOrderListsFreed == [][InOrder]_vars /\ []ListsFreed

\* the pass of hull 1 starts after a pass of hull 0 that built the lists of
\* the world and of a brush-model entity
C7_Witness ==
    /\ pc = "hulls" /\ hullnum = 1 /\ entnum = 1
    /\ entities[1].mapbrushes # <<>>
    /\ entities[2].outputmodelnumber >= 0
    /\ \A e \in 1..Len(entities) : entities[e].brushes = <<>>

\* the classes whose brushes are detail brushes when nodetail is off
DetailClasses ==
    {"func_detail", "func_detail_fence", "func_detail_wall", "func_detail_illusionary"}

\* C24: with nodetail set, a solid brush of a func_detail, func_detail_fence,
\* func_detail_wall or func_detail_illusionary entity is structural in every
\* pass and under every combination of omit flags: it is loaded into the
\* destination's list, and it is loaded with no detail variant.
C24_NodetailIsStructural ==
    Aggregated /\ qbsp_options.nodetail =>
        \A sb \in SourceBrushes :
            (/\ entities[sb[1]].classname \in DetailClasses
             /\ ~entities[sb[1]].omitbrushes
             /\ is_solid(SourceContents(sb[2]))) =>
                /\ LoadedFrom(sb[2]) # {}
                /\ \A b \in LoadedFrom(sb[2]) : b.contents.detail = "none"


(***************************************************************************)
(* Claims about Brush Bevel/Export                                         *)
(***************************************************************************)
\* the faces of brush b whose plane is the order-th axial plane
AxialFaces(b, order) ==
    {i \in 1..Len(b.faces) : IsAxialPlane(b.faces[i].plane, OrderAxis(order), OrderDir(order))}

\* the order-th axial plane at the extent of the bounds of brush b
ExtentPlane(b, order) ==
    [normal |-> AxisVec(OrderAxis(order), OrderDir(order)),
     dist |-> IF OrderDir(order) = 1 THEN b.bounds.maxs[OrderAxis(order)]
              ELSE -b.bounds.mins[OrderAxis(order)]]

PlanesOf(list) == {list[i].plane : i \in 1..Len(list)}

\* the faces of b are exactly the six axial planes of a box
IsBox(b) == Len(b.faces) = 6 /\ \A order \in 0..5 : AxialFaces(b, order) # {}

\* C19: for a brush with at least one face the list AddBrushBevels returns
\* has at least six entries, entries 0..5 are the axial planes -X, +X, -Y,
\* +Y, -Z, +Z in this order, an axial plane no face supplies is the one at
\* the extent of the brush's bounds, and for a box of six axial faces the
\* list is exactly those six planes.
C19_AxialPlanesFirst ==
    bb_planes # <<>> =>
        /\ Len(bb_planes) >= 6
        /\ \A order \in 0..5 :
              /\ bb_planes[order + 1].plane.normal = AxisVec(OrderAxis(order), OrderDir(order))
              /\ IF AxialFaces(bb_brush, order) = {}
                 THEN bb_planes[order + 1].plane = ExtentPlane(bb_brush, order)
                 ELSE bb_planes[order + 1].plane \in PlanesOf(bb_brush.faces)
        /\ IsBox(bb_brush) =>
              /\ Len(bb_planes) = 6
              /\ PlanesOf(bb_planes) = PlanesOf(bb_brush.faces)

\* AddBrushBevels returned for a brush that lacks an axial plane and lists
\* another one out of its canonical place
C19_Witness ==
    /\ bb_planes # <<>>
    /\ \E order \in 0..5 : AxialFaces(bb_brush, order) = {}
    /\ \E order \in 0..5 : AxialFaces(bb_brush, order) \notin {{}, {order + 1}}

\* the entries the edge-bevel loop appended
EdgeBevelEntries ==
    {i \in 1..Len(bb_planes) : i > 6 + Len(bb_brush.faces) - Cardinality(
        {order \in 0..5 : AxialFaces(bb_brush, order) # {}})}

\* C20: the list AddBrushBevels returns never holds the same plane twice,
\* and every appended edge bevel has every point of every face winding on
\* or behind it within the 0.1 tolerance.
C20_NoPlaneTwice ==
    /\ \A i, j \in 1..Len(bb_planes) : i # j => bb_planes[i].plane # bb_planes[j].plane
    /\ \A i \in EdgeBevelEntries :
          \A f \in 1..Len(bb_brush.faces) : \A l \in 1..Len(bb_brush.faces[f].w) :
              ~InFrontOfBevel(bb_planes[i].plane, bb_brush.faces[f].w[l])

\* the part of C20 the code keeps: an appended edge bevel is no face plane
\* and has every point of every face winding on or behind it
C20_BevelsSupportTheBrush ==
    \A i \in EdgeBevelEntries : IsEdgeBevel(bb_brush, bb_planes[i].plane)

\* an edge bevel was appended
C20_BevelAppended == bb_planes # <<>> /\ EdgeBevelEntries # {}

RECURSIVE SumNumsides(_)
\* the sum of numsides of the first n brush records
SumNumsides(n) == IF n = 0 THEN 0 ELSE SumNumsides(n - 1) + dbrushes[n].numsides

\* the texinfo of the face of brush b that plane comes from: the face that
\* lies on the plane, or the first face for a plane no face lies on
OriginTexinfo(b, plane) ==
    IF \E f \in 1..Len(b.faces) : b.faces[f].plane = plane
    THEN b.faces[CHOOSE f \in 1..Len(b.faces) : b.faces[f].plane = plane].texinfo
    ELSE b.faces[1].texinfo

\* C26: after any sequence of ExportBrushList calls the brush records
\* partition the side records: firstside of a brush is the sum of numsides of
\* the brushes before it, numsides is the number of planes AddBrushBevels
\* returns for it, the numsides add up to the length of the side list, and a
\* side carries the texinfo of the face its plane comes from, the first face
\* of the brush for a synthesized plane.
C26_BrushesPartitionSides ==
    /\ Len(dbrushes) = Len(exported)
    /\ SumNumsides(Len(dbrushes)) = Len(dbrushsides)
    /\ \A k \in 1..Len(dbrushes) :
          /\ dbrushes[k].firstside = SumNumsides(k - 1)
          /\ dbrushes[k].numsides = Len(AddBrushBevels(exported[k]))
          /\ \A m \in 1..dbrushes[k].numsides :
                dbrushsides[dbrushes[k].firstside + m].texinfo =
                    ExportMapTexinfo(OriginTexinfo(exported[k],
                                                   dbrushsides[dbrushes[k].firstside + m].planenum))

\* three brushes were exported, the last one a box after two brushes with
\* synthesized planes
C26_Witness ==
    /\ Len(dbrushes) = 3
    /\ dbrushes[1].numsides > 6 /\ dbrushes[2].numsides > 6 /\ dbrushes[3].numsides = 6
    /\ dbrushes[3].firstside = dbrushes[1].numsides + dbrushes[2].numsides
    /\ brush_offset = 3

(***************************************************************************)
(* Claims about the settings                                               *)
(***************************************************************************)
\* dict::parse is about to parse the option token tok
OptionAhead(tok) == parse_status = "options" /\ parser # <<>> /\ Head(parser) = tok

\* the tokens that follow the option token
AfterOption == IF parser = <<>> THEN <<>> ELSE Tail(parser)

\* the token is a number from its first to its last character
IsNumber(token) ==
    LET body == IF token # <<>> /\ token[1] = "-" THEN Tail(token) ELSE token
    IN  body # <<>> /\ \A k \in 1..Len(body) : IsDigit(body[k])

\* C21: a boolean option with no value is set to true; the token after it
\* is consumed as its value only when it is "1", "0" or "-1" ("1" gives
\* true, "0" and "-1" give false); any other token stays in the command
\* line and the option is set to true.
C21_BooleanFlag ==
    [][OptionAhead(<<"-", "l">>) =>
          /\ parse_status' = "options"
          /\ settings'[<<"l">>].source = "commandline"
          /\ IF AfterOption # <<>> /\ Head(AfterOption) \in {<<"1">>, <<"0">>, <<"-", "1">>}
             THEN /\ parser' = Tail(AfterOption)
                  /\ settings'[<<"l">>].value = (Head(AfterOption) = <<"1">>)
             ELSE /\ parser' = AfterOption
                  /\ settings'[<<"l">>].value = TRUE]_vars

\* the boolean option was parsed from the command line and the stray token
\* that followed it is still the next token
C21_Witness ==
    /\ parse_status = "options"
    /\ settings[<<"l">>] = [value |-> TRUE, source |-> "commandline"]
    /\ parser # <<>> /\ Head(parser) = <<"x">>

\* C22: a scalar option followed by no token or by a token that is not a
\* number, and a vec3 option followed by fewer than three tokens or by three
\* tokens one of which is not a number, make dict::parse throw
\* parse_exception, and the settings are left as they were.
C22_InvalidValueThrows ==
    [][(\/ /\ OptionAhead(<<"-", "s">>)
           /\ (AfterOption = <<>> \/ ~IsNumber(Head(AfterOption)))
        \/ /\ OptionAhead(<<"-", "o">>)
           /\ (Len(AfterOption) < 3 \/ \E k \in 1..3 : ~IsNumber(AfterOption[k])))
       => /\ parse_status' = "parse_exception"
          /\ settings' = settings]_vars

\* the number of tokens at the head of tokens that do not begin with '-'
SpanLength(tokens) ==
    Cardinality({k \in 1..Len(tokens) : \A j \in 1..k : tokens[j][1] # "-"})

RECURSIVE JoinTokens(_, _)
\* the first n tokens joined by single spaces
JoinTokens(tokens, n) ==
    IF n = 0 THEN <<>>
    ELSE IF n = 1 THEN tokens[1]
    ELSE JoinTokens(tokens, n - 1) \o <<" ">> \o tokens[n]

\* C23: an unquoted string option that has a token after it takes as its
\* value the following tokens, joined by single spaces, up to the next token
\* that begins with '-'; that token is left to be parsed as the next option;
\* the tokens left when the options end are returned as the remainder, in
\* their order.
C23_StringSpan ==
    [][/\ (OptionAhead(<<"-", "n">>) /\ AfterOption # <<>>) =>
            /\ parse_status' = "options"
            /\ settings'[<<"n">>] =
                  [value |-> JoinTokens(AfterOption, SpanLength(AfterOption)),
                   source |-> "commandline"]
            /\ parser' = SubSeq(AfterOption, SpanLength(AfterOption) + 1, Len(AfterOption))
       /\ (parse_status = "options" /\ parse_status' = "returned") =>
            /\ remainder' = parser
            /\ settings' = settings]_vars

\* C27: over any sequence of setValue and setValueLocked calls on a setting
\* the rank of its source (default < map < command line) never decreases; a
\* map-sourced set on a setting set from the command line leaves value and
\* source as they were; a set from a source of equal or higher rank than the
\* current one replaces the value.
C27_SourceRankNeverDecreases ==
    [][/\ \A n \in DOMAIN settings :
             /\ SourceRank(settings'[n].source) >= SourceRank(settings[n].source)
             /\ n # last_set'.name => settings'[n] = settings[n]
       /\ (settings[last_set'.name].source = "commandline" /\ last_set'.source = "map") =>
             settings'[last_set'.name] = settings[last_set'.name]
       /\ SourceRank(last_set'.source) >= SourceRank(settings[last_set'.name].source) =>
             settings'[last_set'.name] =
                 [value |-> last_set'.value, source |-> last_set'.source]]_vars

\* the scalar setting was set from the command line and a later map-sourced
\* set with another value was ignored
C27_Witness ==
    /\ last_set # <<>>
    /\ last_set.name = <<"s">> /\ last_set.source = "map"
    /\ settings[<<"s">>].source = "commandline"
    /\ settings[<<"s">>].value # last_set.value

(***************************************************************************)
(* Claims about logging::percent                                           *)
(***************************************************************************)
\* C28: with several threads calling logging::percent, at most one thread
\* at a time is between acquiring the flag `locked` and releasing it
C28_OneThreadHolds == Cardinality(Holders) <= 1

\* a final call does not enter while the flag is held: every successful
\* exchange finds the flag clear
C28_EntersOnlyWhenClear ==
    [][\A t \in Threads :
          (percent_pc # <<>> /\ percent_pc[t] = "acquire" /\ percent_pc'[t] = "inside")
              => ~flag_locked]_vars

\* a call that is not final and finds the flag held returns and leaves the
\* timing state alone
C28_NonFinalReturns ==
    [][\A t \in Threads :
          (/\ percent_pc # <<>>
           /\ percent_pc[t] = "acquire"
           /\ percent_pc'[t] # "acquire"
           /\ percent_call[t].count # percent_call[t].max
           /\ flag_locked)
              => /\ percent_pc'[t] = "idle"
                 /\ UNCHANGED <<is_timing, last_count, flag_locked>>]_vars

(***************************************************************************)
(* Claims about EmitAreaPortals                                            *)
(***************************************************************************)
\* the areaportal entities that touch area i
Touching(i) ==
    {n \in DOMAIN map_entities :
        /\ map_entities[n].areaportalnum # 0
        /\ i \in {map_entities[n].portalareas[1], map_entities[n].portalareas[2]}}

\* the other area of an entity that touches area i
OtherArea(e, i) == IF e.portalareas[1] = i THEN e.portalareas[2] ELSE e.portalareas[1]

\* the positions in dareaportals of the records of area i
AreaRange(i) ==
    {k \in DOMAIN dareaportals :
        /\ k > dareas[i + 1].firstareaportal
        /\ k <= dareas[i + 1].firstareaportal + dareas[i + 1].numareaportals}

\* the records of area i that carry the portal number of entity n
RecordsOf(i, n) ==
    {k \in AreaRange(i) :
        dareaportals[k] = [portalnum |-> map_entities[n].areaportalnum,
                           otherarea |-> OtherArea(map_entities[n], i)]}

\* every entity touching area i has exactly one record in area i
C29_TouchingEntitiesRecorded ==
    dareas # <<>> =>
        \A i \in 1..c_areas : \A n \in Touching(i) : Cardinality(RecordsOf(i, n)) = 1

\* C29: after EmitAreaPortals every area i in 1..c_areas holds exactly one
\* record per areaportal entity touching it, with that entity's portal
\* number and other area, and no other record: numareaportals of area i is
\* the number of areaportal entities touching area i
C29_OneRecordPerTouchingEntity ==
    dareas # <<>> =>
        \A i \in 1..c_areas :
            /\ \A n \in Touching(i) : Cardinality(RecordsOf(i, n)) = 1
            /\ dareas[i + 1].numareaportals = Cardinality(Touching(i))

(***************************************************************************)
(* Claims about FixRotateOrigin                                            *)
(***************************************************************************)
\* the loop of UpdateEntLump handles a rotate_ entity in this step
RotateFixed ==
    /\ rotate_ents # <<>>
    /\ rotate_next <= Len(rotate_ents)
    /\ rotate_next' = rotate_next + 1
    /\ rotate_ents[rotate_next].classname = "rotate_object"

\* the entities whose targetname is the target of entity n, case ignored
NamedTargets(n) ==
    {m \in DOMAIN rotate_ents :
        string_iequals(rotate_ents[m].targetname, rotate_ents[n].target)}

\* FindTargetEntity never returns an entity whose targetname differs from
\* the searched target
C30_FoundEntityIsNamed ==
    [][RotateFixed => (rotate_found' = 0 \/ rotate_found' \in NamedTargets(rotate_next))]_vars

\* C30: FixRotateOrigin sets the origin of a rotate_ entity to the origin of
\* the entity whose targetname is its target, case ignored; with an empty
\* target or no entity of that name it warns and sets the origin to zero;
\* FindTargetEntity never returns an entity of another targetname
C30_OriginOfNamedTarget ==
    [][RotateFixed =>
          LET n == rotate_next
              named == IF rotate_ents[n].target = "" THEN {} ELSE NamedTargets(n)
          IN  /\ rotate_found' = 0 \/ rotate_found' \in NamedTargets(n)
              /\ IF named # {}
                 THEN \E m \in named :
                          get_vector(rotate_ents'[n].origin) = get_vector(rotate_ents[m].origin)
                 ELSE /\ rotate_ents'[n].origin = "0 0 0"
                      /\ log' = Append(log, "WARNING: No target for rotation entity")]_vars

====
